------------------------- MODULE OrderSubmissionProofs -------------------------
(***************************************************************************)
(* What holds of submissions and pushes for any number of keys, requests,   *)
(* handlers, orders and calls, and whatever may go wrong.                   *)
(***************************************************************************)
EXTENDS OrderSubmission, TLAPS

USE BoundsAssumption

--------------------------------------------------------------------------------
(* The inductive invariant *)

\* The rows of keys and orders, made in one transaction, name each other.
RowsAgree ==
    /\ \A k \in Keys : key[k] # NoKeyRow =>
        /\ Made(key[k].order)
        /\ order[key[k].order].key = k
        /\ order[key[k].order].body = key[k].body
    /\ \A o \in Orders : Made(o) => key[order[o].key] # NoKeyRow /\ key[order[o].key].order = o

\* What a handler at work has in its memory of its order.
Right(w) ==
    /\ Made(w.order)
    /\ order[w.order].key = w.key /\ order[w.order].body = w.body
    /\ w.linked => order[w.order].linked # 0
    /\ w.at = "link" => 1 <= w.got /\ w.got <= placed[w.order]
JobsKnow == \A h \in Handlers : job[h] \in Working => Right(job[h])
RewritesKnow == \A c \in Writers : rewrite[c] # Idle => Made(rewrite[c].order)

\* Nothing is in Shopify, or on its way, for an order that was not made.
NothingUnmade == \A o \in Orders : ~Made(o) => placed[o] = 0 /\ late[o] = 0

Known == TypeOK /\ RowsAgree /\ JobsKnow /\ RewritesKnow /\ NothingUnmade /\ LinksExist

Pushes(h, o) == job[h].at \in Pushing /\ job[h].order = o

\* What a handler in a phase of the push relies on: n Shopify orders, row r.
Sound(w, n, r) ==
    /\ r.meta.claim = "live"
    /\ w.at = "create" => n = 0 /\ r.linked = 0
    /\ w.at \in {"read", "release", "throw"} /\ r.linked = 0 => n = 0 \/ r.meta.uncertain
    /\ w.at = "lookup" => r.meta.uncertain /\ r.linked = 0
    /\ w.at = "link" => n = 1 /\ r.linked = 0
    /\ w.at = "unanswered" => r.linked = 0
    /\ w.at = "refused" => n = 0
    /\ w.at = "record" => w.meta.claim = "live" /\ (n = 0 \/ w.meta.uncertain)

\* What the next push relies on.
Remembered(n, r) == r.linked = 0 /\ n > 0 => r.meta.uncertain \/ r.meta.claim # "none"

Safe(o) ==
    /\ placed[o] <= 1
    /\ \A g, h \in Handlers : Pushes(g, o) /\ Pushes(h, o) => g = h
    /\ \A h \in Handlers : Pushes(h, o) => Sound(job[h], placed[o], order[o])
    /\ (\A h \in Handlers : ~Pushes(h, o)) => Remembered(placed[o], order[o])
PushesSafe == \A o \in Orders : Made(o) /\ o \notin hit => Safe(o)

Inv == Known /\ PushesSafe

--------------------------------------------------------------------------------
(* Types *)

\* A handler that is at a step of its own carries the fields that the step reads.
LEMMA JobKinds ==
    ASSUME TypeOK, NEW h \in Handlers
    PROVE  /\ job[h] \in {Idle} \cup Asking \cup Working
           /\ job[h].at \in {"find", "insert"} => job[h] \in Asking
           /\ job[h].at \notin {"idle", "find", "insert"} => job[h] \in Working
           /\ job[h] = Idle => job[h].at = "idle"
           /\ job[h] \in Working => job[h].at \notin {"idle", "find", "insert"}
<1>1. job[h] \in {Idle} \cup Asking \cup Working
    BY DEF TypeOK
<1>2. \A w \in Asking : w.at \in {"find", "insert"}
    BY DEF Asking
<1>3. ASSUME NEW w \in Working PROVE w.at \notin {"idle", "find", "insert"}
    <2>1. w.at \in {"wait", "look", "claim", "notify", "noted", "complete", "answer", "store"} \cup Pushing
        BY DEF Working
    <2> QED BY <2>1 DEF Pushing
<1>4. Idle.at = "idle"
    BY DEF Idle
<1> HIDE DEF Idle, Asking, Working
<1> QED BY <1>1, <1>2, <1>3, <1>4

\* A row is unused or has the fields of its kind.
LEMMA RowKinds ==
    ASSUME TypeOK
    PROVE  /\ \A o \in Orders : Made(o) => order[o] \in Order
           /\ \A k \in Keys : key[k] # NoKeyRow => key[k] \in KeyRow
           /\ \A r \in Order : r # Unused
           /\ \A r \in KeyRow : r # NoKeyRow
<1>1. /\ \A o \in Orders : Made(o) => order[o] \in Order
      /\ \A k \in Keys : key[k] # NoKeyRow => key[k] \in KeyRow
    BY DEF TypeOK, Made
<1>2. ASSUME NEW r \in Order PROVE r # Unused
    <2>1. r.made = TRUE
        BY DEF Order
    <2>2. Unused.made = FALSE
        BY DEF Unused
    <2> QED BY <2>1, <2>2
<1>3. ASSUME NEW r \in KeyRow PROVE r # NoKeyRow
    <2>1. r.status \in {"ORDER_CREATED", "COMPLETED"}
        BY DEF KeyRow
    <2>2. NoKeyRow.status = "none"
        BY DEF NoKeyRow
    <2> QED BY <2>1, <2>2
<1> QED BY <1>1, <1>2, <1>3

LEMMA WorkTyped ==
    ASSUME NEW k \in Keys, NEW b \in Bodies, NEW o \in Orders,
           NEW why \in {"first", "finish", "again", "retry"},
           NEW phase \in {"wait", "look", "claim", "notify", "noted", "complete", "answer", "store"} \cup Pushing
    PROVE  /\ Work(phase, why, k, b, o) \in Working
           /\ \A l \in BOOLEAN : [Work(phase, why, k, b, o) EXCEPT !.linked = l] \in Working
BY DEF Work, Working, NoMetadata, Metadata

\* Where the caller of a push goes on.
LEMMA OnwardPhases ==
    \A why \in {"first", "finish", "again"} : Onward[why] \in {"notify", "complete", "store"}
BY DEF Onward

\* The jobs that the steps of a push leave.
LEMMA GotoTyped ==
    ASSUME TypeOK, NEW h \in Handlers, job[h] \in Working,
           NEW phase \in {"wait", "look", "claim", "notify", "noted", "complete", "answer", "store"} \cup Pushing
    PROVE  /\ Goto(h, phase) => job' \in [Handlers -> {Idle} \cup Asking \cup Working]
           /\ \A l \in BOOLEAN : Releasing(h, l) => job' \in [Handlers -> {Idle} \cup Asking \cup Working]
           /\ \A l \in BOOLEAN : Pushed(h, l) => job' \in [Handlers -> {Idle} \cup Asking \cup Working]
<1>1. [job[h] EXCEPT !.at = phase] \in Working
    BY DEF Working
<1>2. \A l \in BOOLEAN : [job[h] EXCEPT !.at = "release", !.linked = l] \in Working
    BY DEF Working, Pushing
<1>3. job \in [Handlers -> {Idle} \cup Asking \cup Working]
    BY DEF TypeOK
<1>4. Goto(h, phase) => job' \in [Handlers -> {Idle} \cup Asking \cup Working]
    BY <1>1, <1>3 DEF Goto
<1>5. ASSUME NEW l \in BOOLEAN, Releasing(h, l)
      PROVE  job' \in [Handlers -> {Idle} \cup Asking \cup Working]
    <2>1. job' = [job EXCEPT ![h] = [job[h] EXCEPT !.at = "release", !.linked = l]]
        BY <1>3, <1>5 DEF Releasing
    <2> QED BY <1>2, <1>3, <2>1
<1>6. ASSUME NEW l \in BOOLEAN, Pushed(h, l)
      PROVE  job' \in [Handlers -> {Idle} \cup Asking \cup Working]
    <2> DEFINE p == Onward[job[h].why]
               w == [Work(p, job[h].why, job[h].key, job[h].body, job[h].order) EXCEPT !.linked = l]
    <2>1. /\ job[h].key \in Keys /\ job[h].body \in Bodies /\ job[h].order \in Orders
          /\ job[h].why \in {"first", "finish", "again", "retry"}
        BY DEF Working
    <2>2. job' = [job EXCEPT ![h] = IF job[h].why = "retry" THEN Idle ELSE w]
        BY <1>6 DEF Pushed
    <2>3. CASE job[h].why = "retry"
        BY <1>3, <2>2, <2>3
    <2>4. CASE job[h].why # "retry"
        <3>1. p \in {"notify", "complete", "store"}
            BY <2>1, <2>4, OnwardPhases
        <3> HIDE DEF p
        <3>2. w \in Working
            BY <2>1, <3>1, WorkTyped
        <3> QED BY <1>3, <2>2, <2>4, <3>2
    <2> QED BY <2>3, <2>4
<1> QED BY <1>4, <1>5, <1>6

\* The metadata of order o becomes m; nothing else of the orders changes.
Marked(o, m) ==
    /\ \A p \in Orders : p # o => order'[p] = order[p]
    /\ order'[o] = [order[o] EXCEPT !.meta = m]

LEMMA MarkedTyped ==
    ASSUME TypeOK, NEW o \in Orders, Made(o), NEW m \in Metadata,
           order' = [order EXCEPT ![o].meta = m]
    PROVE  order' \in [Orders -> Order \cup {Unused}] /\ Marked(o, m)
<1>1. order[o] \in Order
    BY RowKinds
<1>2. [order[o] EXCEPT !.meta = m] \in Order
    BY <1>1 DEF Order
<1>3. order \in [Orders -> Order \cup {Unused}]
    BY DEF TypeOK
<1> QED BY <1>2, <1>3 DEF Marked

\* So too when only its claim changes.
LEMMA ClaimMarked ==
    ASSUME TypeOK, NEW o \in Orders, Made(o), NEW c \in {"none", "live", "over"},
           order' = [order EXCEPT ![o].meta.claim = c]
    PROVE  /\ [order[o].meta EXCEPT !.claim = c] \in Metadata
           /\ order' \in [Orders -> Order \cup {Unused}]
           /\ Marked(o, [order[o].meta EXCEPT !.claim = c])
<1>1. order[o] \in Order
    BY RowKinds
<1>2. order[o].meta \in Metadata
    BY <1>1 DEF Order
<1>3. [order[o].meta EXCEPT !.claim = c] \in Metadata
    BY <1>2 DEF Metadata
<1>4. order' = [order EXCEPT ![o].meta = [order[o].meta EXCEPT !.claim = c]]
    BY DEF TypeOK
<1> QED BY <1>3, <1>4, MarkedTyped

\* Jobs and orders a step may name.
LEMMA WorkingTyped ==
    ASSUME NEW w \in Working
    PROVE  /\ w.key \in Keys /\ w.body \in Bodies /\ w.order \in Orders
           /\ w.why \in {"first", "finish", "again", "retry"}
           /\ w.linked \in BOOLEAN /\ w.got \in Nat /\ w.meta \in Metadata
BY DEF Working

LEMMA InitTyped == Init => TypeOK
<1> SUFFICES ASSUME Init PROVE TypeOK
    OBVIOUS
<1>1. order \in [Orders -> Order \cup {Unused}] /\ key \in [Keys -> KeyRow \cup {NoKeyRow}]
    BY DEF Init
<1>2. job \in [Handlers -> {Idle} \cup Asking \cup Working] /\ rewrite \in [Writers -> {Idle} \cup Rewriting]
    BY DEF Init
<1>3. placed \in [Orders -> Nat] /\ late \in [Orders -> Nat] /\ hit \subseteq Orders
    BY DEF Init
<1> QED BY <1>1, <1>2, <1>3 DEF TypeOK

LEMMA CreateTyped ==
    ASSUME TypeOK, NEW o \in Orders
    PROVE  /\ Unanswered(o) => placed' \in [Orders -> Nat] /\ late' \in [Orders -> Nat]
           /\ Place(o) => placed' \in [Orders -> Nat]
<1>0. placed \in [Orders -> Nat] /\ late \in [Orders -> Nat]
    BY DEF TypeOK
<1>1. placed[o] + 1 \in Nat /\ late[o] + 1 \in Nat
    BY <1>0
<1>2. Place(o) => placed' \in [Orders -> Nat]
    BY <1>0, <1>1 DEF Place
<1>3. ASSUME Unanswered(o) PROVE placed' \in [Orders -> Nat] /\ late' \in [Orders -> Nat]
    <2>1. CASE Place(o) /\ UNCHANGED late
        BY <1>0, <1>2, <2>1
    <2>2. CASE UNCHANGED <<placed, late>>
        BY <1>0, <2>2
    <2>3. CASE late' = [late EXCEPT ![o] = @ + 1] /\ UNCHANGED placed
        BY <1>0, <1>1, <2>3
    <2> QED BY <1>3, <2>1, <2>2, <2>3 DEF Unanswered
<1> QED BY <1>2, <1>3

\* A handler at work has the order of its key.
LEMMA WorkKnown ==
    ASSUME Known, NEW h \in Handlers, job[h] \in Working
    PROVE  /\ job[h].order \in Orders /\ Made(job[h].order) /\ order[job[h].order] \in Order
           /\ order[job[h].order].key = job[h].key /\ order[job[h].order].body = job[h].body
           /\ job[h].key \in Keys /\ key[job[h].key] \in KeyRow /\ key[job[h].key].order = job[h].order
           /\ key[job[h].key] # NoKeyRow
<1>1. Right(job[h]) /\ RowsAgree /\ TypeOK
    BY DEF Known, JobsKnow
<1>2. job[h].order \in Orders /\ job[h].key \in Keys
    BY WorkingTyped
<1>3. Made(job[h].order) /\ order[job[h].order].key = job[h].key /\ order[job[h].order].body = job[h].body
    BY <1>1 DEF Right
<1>4. key[job[h].key] # NoKeyRow /\ key[job[h].key].order = job[h].order
    BY <1>1, <1>2, <1>3 DEF RowsAgree
<1> QED BY <1>1, <1>2, <1>3, <1>4, RowKinds

LEMMA SubmissionTyped ==
    ASSUME Known, NEW h \in Handlers,
           \/ \E k \in Keys, b \in Bodies : Submit(h, k, b)
           \/ Find(h) \/ Insert(h) \/ Wait(h) \/ Complete(h) \/ Answer(h) \/ Store(h)
           \/ \E o \in Orders : RetryPush(h, o)
    PROVE  TypeOK'
<1>typed. TypeOK
    BY DEF Known
<1> USE DEF TypeOK
<1>1. ASSUME NEW k \in Keys, NEW b \in Bodies, Submit(h, k, b) PROVE TypeOK'
    <2>1. [at |-> "find", key |-> k, body |-> b] \in Asking
        BY DEF Asking
    <2> QED BY <1>1, <1>typed, <2>1 DEF Submit, shopify
<1>2. ASSUME Find(h) PROVE TypeOK'
    <2>1. job[h] \in Asking
        BY <1>2, <1>typed, JobKinds DEF Find, At
    <2>2. job[h].key \in Keys /\ job[h].body \in Bodies /\ [job[h] EXCEPT !.at = "insert"] \in Asking
        BY <2>1 DEF Asking
    <2>3. key[job[h].key] # NoKeyRow => key[job[h].key].order \in Orders
        BY <2>2, <1>typed, RowKinds DEF KeyRow
    <2>4. key[job[h].key] # NoKeyRow =>
            Work("wait", "finish", job[h].key, job[h].body, key[job[h].key].order) \in Working
        BY <2>2, <2>3, WorkTyped
    <2>5. job' \in [Handlers -> {Idle} \cup Asking \cup Working]
        BY <1>2, <1>typed, <2>2, <2>4 DEF Find, Goto, End
    <2> QED BY <1>2, <1>typed, <2>5 DEF Find, shopify
<1>3. ASSUME Insert(h) PROVE TypeOK'
    <2>1. job[h] \in Asking
        BY <1>3, <1>typed, JobKinds DEF Insert, At
    <2>2. job[h].key \in Keys /\ job[h].body \in Bodies /\ [job[h] EXCEPT !.at = "find"] \in Asking
        BY <2>1 DEF Asking
    <2>3. CASE key[job[h].key] = NoKeyRow
        <3>1. PICK o \in Orders : Make(h, o)
            BY <1>3, <2>3 DEF Insert
        <3>2. [made |-> TRUE, key |-> job[h].key, body |-> job[h].body, linked |-> 0, meta |-> NoMetadata] \in Order
            BY <2>2 DEF Order, NoMetadata, Metadata
        <3>3. [status |-> "ORDER_CREATED", order |-> o, body |-> job[h].body, shopify |-> "none"] \in KeyRow
            BY <2>2 DEF KeyRow
        <3>4. Work("look", "first", job[h].key, job[h].body, o) \in Working
            BY <2>2, WorkTyped
        <3> QED BY <1>3, <1>typed, <2>2, <3>1, <3>2, <3>3, <3>4 DEF Insert, Make, shopify
    <2>4. CASE key[job[h].key] # NoKeyRow
        BY <1>3, <1>typed, <2>2, <2>4 DEF Insert, Goto, shopify
    <2> QED BY <2>3, <2>4
<1>4. ASSUME Wait(h) PROVE TypeOK'
    <2>1. job[h] \in Working
        BY <1>4, <1>typed, JobKinds DEF Wait, At
    <2> QED BY <1>4, <1>typed, <2>1, GotoTyped DEF Wait, shopify
<1>5. ASSUME Complete(h) PROVE TypeOK'
    <2>1. job[h] \in Working
        BY <1>5, <1>typed, JobKinds DEF Complete, At
    <2>2. job[h].key \in Keys
        BY <2>1, WorkingTyped
    <2>4. key[job[h].key] \in KeyRow
        BY <2>1, WorkKnown
    <2>5. \A s \in {"linked", "failed"} : [key[job[h].key] EXCEPT !.status = "COMPLETED", !.shopify = s] \in KeyRow
        BY <2>4 DEF KeyRow
    <2>6. key' \in [Keys -> KeyRow \cup {NoKeyRow}]
        BY <1>5, <1>typed, <2>2, <2>5 DEF Complete
    <2>7. job' \in [Handlers -> {Idle} \cup Asking \cup Working]
        <3>1. Goto(h, "answer") => job' \in [Handlers -> {Idle} \cup Asking \cup Working]
            BY <1>typed, <2>1, GotoTyped
        <3> QED BY <1>5, <1>typed, <3>1 DEF Complete, End
    <2> QED BY <1>5, <1>typed, <2>6, <2>7 DEF Complete, shopify
<1>6. ASSUME Answer(h) PROVE TypeOK'
    <2>1. job[h] \in Working
        BY <1>6, <1>typed, JobKinds DEF Answer, At
    <2>2. Work("look", "again", job[h].key, job[h].body, job[h].order) \in Working
        BY <2>1, WorkingTyped, WorkTyped
    <2> QED BY <1>6, <1>typed, <2>2 DEF Answer, End, shopify
<1>7. ASSUME Store(h) PROVE TypeOK'
    <2>1. job[h] \in Working
        BY <1>7, <1>typed, JobKinds DEF Store, At
    <2>2. job[h].key \in Keys
        BY <2>1, WorkingTyped
    <2>4. key[job[h].key] \in KeyRow
        BY <2>1, WorkKnown
    <2>5. \A s \in {"linked", "failed"} : [key[job[h].key] EXCEPT !.shopify = s] \in KeyRow
        BY <2>4 DEF KeyRow
    <2>6. key' \in [Keys -> KeyRow \cup {NoKeyRow}]
        BY <1>7, <1>typed, <2>2, <2>5 DEF Store
    <2> QED BY <1>7, <1>typed, <2>6 DEF Store, End, shopify
<1>8. ASSUME NEW o \in Orders, RetryPush(h, o) PROVE TypeOK'
    <2>1. order[o] \in Order
        BY <1>8, <1>typed, RowKinds DEF RetryPush, Made
    <2>2. Work("look", "retry", order[o].key, order[o].body, o) \in Working
        <3>1. order[o].key \in Keys /\ order[o].body \in Bodies
            BY <2>1 DEF Order
        <3> QED BY <3>1, WorkTyped
    <2> QED BY <1>8, <1>typed, <2>2 DEF RetryPush, shopify
<1> QED BY <1>1, <1>2, <1>3, <1>4, <1>5, <1>6, <1>7, <1>8

\* What WriteBack makes of the rows.
LEMMA WriteBackTyped ==
    ASSUME TypeOK, NEW o \in Orders, Made(o), NEW m \in Metadata, WriteBack(o, m)
    PROVE  /\ order' \in [Orders -> Order \cup {Unused}] /\ Marked(o, m)
           /\ hit \subseteq hit' /\ hit' \subseteq Orders
BY MarkedTyped DEF WriteBack, Hit, TypeOK

\* The jobs of a notification.
LEMMA NotifyJobs ==
    ASSUME Known, NEW h \in Handlers, NotifyRead(h) \/ NotifyWrite(h)
    PROVE  /\ job[h] \in Working /\ job[h].order \in Orders /\ Made(job[h].order)
           /\ job[h].meta \in Metadata
           /\ job' \in [Handlers -> {Idle} \cup Asking \cup Working]
           /\ job[h].at \in {"notify", "noted"} /\ job'[h].at \in {"noted", "complete"}
           /\ job'[h].order = job[h].order /\ job'[h].key = job[h].key
           /\ job'[h].body = job[h].body /\ job'[h].linked = job[h].linked
           /\ \A g \in Handlers : g # h => job'[g] = job[g]
<1>typed. TypeOK
    BY DEF Known
<1>1. job[h] \in Working /\ job[h].at \in {"notify", "noted"}
    BY <1>typed, JobKinds DEF NotifyRead, NotifyWrite, At
<1>2. /\ job[h].order \in Orders /\ Made(job[h].order) /\ order[job[h].order] \in Order
      /\ job[h].meta \in Metadata
    BY <1>1, WorkKnown, WorkingTyped
<1>3. CASE Goto(h, "complete")
    <2>1. job' \in [Handlers -> {Idle} \cup Asking \cup Working]
        BY <1>typed, <1>1, <1>3, GotoTyped
    <2> QED BY <1>typed, <1>1, <1>2, <1>3, <2>1 DEF Goto, TypeOK, Working
<1>4. CASE NotifyRead(h) /\ ~Goto(h, "complete")
    <2> DEFINE m == order[job[h].order].meta
    <2>1. m \in Metadata
        BY <1>2 DEF Order
    <2>2. job' = [job EXCEPT ![h].at = "noted", ![h].meta = m]
        BY <1>4 DEF NotifyRead
    <2> HIDE DEF m
    <2>3. [job[h] EXCEPT !.at = "noted", !.meta = m] \in Working
        BY <1>1, <2>1 DEF Working
    <2>4. job' = [job EXCEPT ![h] = [job[h] EXCEPT !.at = "noted", !.meta = m]]
        BY <1>typed, <2>2 DEF TypeOK
    <2>5. job' \in [Handlers -> {Idle} \cup Asking \cup Working]
        BY <1>typed, <2>3, <2>4 DEF TypeOK
    <2> QED BY <1>typed, <1>1, <1>2, <2>4, <2>5 DEF TypeOK, Working
<1> QED BY <1>3, <1>4 DEF NotifyRead, NotifyWrite

LEMMA NotifyTyped ==
    ASSUME Known, NEW h \in Handlers, NotifyRead(h) \/ NotifyWrite(h)
    PROVE  TypeOK'
<1>typed. TypeOK
    BY DEF Known
<1>1. job' \in [Handlers -> {Idle} \cup Asking \cup Working]
    BY NotifyJobs
<1>2. ASSUME NotifyRead(h) PROVE TypeOK'
    BY <1>1, <1>2, <1>typed DEF NotifyRead, TypeOK, shopify
<1>3. ASSUME NotifyWrite(h) PROVE TypeOK'
    <2>1. /\ order' \in [Orders -> Order \cup {Unused}]
          /\ hit' \subseteq Orders
        BY <1>3, <1>typed, NotifyJobs, WriteBackTyped DEF NotifyWrite, TypeOK
    <2> QED BY <1>1, <1>3, <1>typed, <2>1 DEF NotifyWrite, TypeOK
<1> QED BY <1>2, <1>3

LEMMA PushTyped ==
    ASSUME Known, NEW h \in Handlers,
           \/ Look(h) \/ Claim(h) \/ Read(h) \/ Lookup(h)
           \/ CreateAnswered(h) \/ CreateRefused(h) \/ CreateUnanswered(h) \/ CreateResent(h)
           \/ Note(h) \/ Record(h) \/ Link(h) \/ WriteFails(h) \/ Release(h)
    PROVE  TypeOK'
<1>typed. TypeOK
    BY DEF Known
<1>0. job[h] \in Working
    BY <1>typed, JobKinds DEF Look, Claim, Read, Lookup, CreateAnswered, CreateRefused, CreateUnanswered,
          CreateResent, Note, Record, Link, WriteFails, Release, At
<1> DEFINE o == job[h].order
           Jobs == [Handlers -> {Idle} \cup Asking \cup Working]
<1>o. o \in Orders /\ Made(o) /\ order[o] \in Order
    BY <1>0, WorkKnown
<1>g. \A p \in {"claim", "lookup", "create", "throw", "unanswered", "refused", "read"} : Goto(h, p) => job' \in Jobs
    BY <1>typed, <1>0, GotoTyped DEF Pushing
<1>r. \A l \in BOOLEAN : Releasing(h, l) => job' \in Jobs
    BY <1>typed, <1>0, GotoTyped
<1>p. \A l \in BOOLEAN : Pushed(h, l) => job' \in Jobs
    BY <1>typed, <1>0, GotoTyped
<1>m. order[o].meta \in Metadata
    BY <1>o DEF Order
<1>hit. Hit(o) => hit' \subseteq Orders
    BY <1>typed, <1>o DEF TypeOK, Hit
<1> HIDE DEF o, Jobs
<1>1. ASSUME Look(h) PROVE TypeOK'
    <2>1. job' \in Jobs
        BY <1>1, <1>g, <1>p DEF Look
    <2> QED BY <1>1, <1>typed, <2>1 DEF Look, shopify, TypeOK, Jobs
<1>2. ASSUME Claim(h) PROVE TypeOK'
    <2>1. Claimed(order[o].meta) \in Metadata
        BY <1>m DEF Claimed, Metadata
    <2>2. CASE Claimable(o)
        <3>1. order' = [order EXCEPT ![o].meta = Claimed(@)] /\ Goto(h, "read")
            BY <1>2, <2>2 DEF Claim, o
        <3>2. order' = [order EXCEPT ![o].meta = Claimed(order[o].meta)]
            BY <3>1, <1>typed DEF TypeOK
        <3>3. order' \in [Orders -> Order \cup {Unused}]
            BY <3>2, <1>typed, <1>o, <2>1, MarkedTyped
        <3>4. job' \in Jobs
            BY <3>1, <1>g
        <3> QED BY <1>2, <1>typed, <3>3, <3>4 DEF Claim, shopify, TypeOK, Jobs
    <2>3. CASE ~Claimable(o)
        <3> DEFINE l == order[o].linked # 0
        <3>1. l \in BOOLEAN
            OBVIOUS
        <3>2. Pushed(h, l) /\ UNCHANGED order
            BY <1>2, <2>3 DEF Claim, o
        <3> HIDE DEF l
        <3>3. job' \in Jobs
            BY <3>1, <3>2, <1>p
        <3> QED BY <1>2, <1>typed, <3>2, <3>3 DEF Claim, shopify, TypeOK, Jobs
    <2> QED BY <2>2, <2>3
<1>3. ASSUME Read(h) PROVE TypeOK'
    <2>1. job' \in Jobs
        BY <1>3, <1>g, <1>r DEF Read
    <2> QED BY <1>3, <1>typed, <2>1 DEF Read, shopify, TypeOK, Jobs
<1>4. ASSUME Lookup(h) PROVE TypeOK'
    <2>1. [job[h] EXCEPT !.at = "link", !.got = 1] \in Working
        BY <1>0 DEF Working, Pushing
    <2>2. job' = [job EXCEPT ![h].at = "link", ![h].got = 1] => job' \in Jobs
        BY <1>typed, <2>1 DEF TypeOK, Jobs
    <2>3. job' \in Jobs
        BY <1>4, <2>2, <1>g, <1>r DEF Lookup
    <2> QED BY <1>4, <1>typed, <2>3 DEF Lookup, shopify, TypeOK, Jobs
<1>5. ASSUME CreateAnswered(h) PROVE TypeOK'
    <2>1. placed' \in [Orders -> Nat]
        BY <1>5, <1>typed, <1>o, CreateTyped DEF CreateAnswered, o
    <2> DEFINE n == placed'[o]
    <2>2. n \in Nat
        BY <2>1, <1>o
    <2>3. job' = [job EXCEPT ![h].at = "link", ![h].got = n]
        BY <1>5 DEF CreateAnswered, o
    <2> HIDE DEF n
    <2>4. [job[h] EXCEPT !.at = "link", !.got = n] \in Working
        BY <1>0, <2>2 DEF Working, Pushing
    <2>5. job' \in Jobs
        BY <1>typed, <2>3, <2>4 DEF TypeOK, Jobs
    <2> QED BY <1>5, <1>typed, <2>1, <2>5 DEF CreateAnswered, TypeOK, Jobs
<1>6. ASSUME CreateRefused(h) PROVE TypeOK'
    <2>1. job' \in Jobs
        BY <1>6, <1>g, <1>r DEF CreateRefused
    <2> QED BY <1>6, <1>typed, <2>1 DEF CreateRefused, shopify, TypeOK, Jobs
<1>7. ASSUME CreateUnanswered(h) PROVE TypeOK'
    <2>1. placed' \in [Orders -> Nat] /\ late' \in [Orders -> Nat]
        BY <1>7, <1>typed, <1>o, CreateTyped DEF CreateUnanswered, o
    <2>2. job' \in Jobs
        BY <1>7, <1>g DEF CreateUnanswered
    <2> QED BY <1>7, <1>typed, <2>1, <2>2 DEF CreateUnanswered, TypeOK, Jobs
<1>8. ASSUME CreateResent(h) PROVE TypeOK'
    <2>1. placed' \in [Orders -> Nat]
        BY <1>8, <1>typed, <1>o, CreateTyped DEF CreateResent, o
    <2> QED BY <1>8, <1>typed, <1>hit, <2>1 DEF CreateResent, TypeOK, o
<1>9. ASSUME Note(h) PROVE TypeOK'
    <2> DEFINE m == [order[o].meta EXCEPT !.uncertain = @ \/ At(h, "unanswered")]
    <2>1. m \in Metadata
        BY <1>m DEF Metadata
    <2>2. job' = [job EXCEPT ![h].at = "record", ![h].meta = m]
        BY <1>9 DEF Note, o
    <2> HIDE DEF m
    <2>3. [job[h] EXCEPT !.at = "record", !.meta = m] \in Working
        BY <1>0, <2>1 DEF Working, Pushing
    <2>4. job' \in Jobs
        BY <1>typed, <2>2, <2>3 DEF TypeOK, Jobs
    <2> QED BY <1>9, <1>typed, <2>4 DEF Note, shopify, TypeOK, Jobs
<1>10. ASSUME Record(h) PROVE TypeOK'
    <2>1. order' \in [Orders -> Order \cup {Unused}]
        BY <1>10, <1>0, <1>typed, <1>o, MarkedTyped, WorkingTyped DEF Record, o
    <2>2. job' \in Jobs
        BY <1>10, <1>r DEF Record
    <2> QED BY <1>10, <1>typed, <2>1, <2>2 DEF Record, shopify, TypeOK, Jobs
<1>11. ASSUME Link(h) PROVE TypeOK'
    <2> DEFINE n == IF order[o].linked = 0 THEN job[h].got ELSE order[o].linked
    <2>1. n \in Nat
        BY <1>o, <1>0, WorkingTyped DEF Order
    <2>2. [order[o] EXCEPT !.linked = n] \in Order
        BY <1>o, <2>1 DEF Order
    <2>3. order' = [order EXCEPT ![o] = [order[o] EXCEPT !.linked = n]]
        BY <1>11, <1>typed, <1>o DEF Link, TypeOK, o
    <2> HIDE DEF n
    <2>4. order' \in [Orders -> Order \cup {Unused}]
        BY <1>typed, <2>2, <2>3 DEF TypeOK
    <2>5. job' \in Jobs
        BY <1>11, <1>r DEF Link
    <2> QED BY <1>11, <1>typed, <2>4, <2>5 DEF Link, shopify, TypeOK, Jobs
<1>12. ASSUME WriteFails(h) PROVE TypeOK'
    <2>1. job' \in Jobs
        BY <1>12, <1>g DEF WriteFails
    <2> QED BY <1>12, <1>typed, <1>hit, <2>1 DEF WriteFails, TypeOK, Jobs, o
<1>13. ASSUME Release(h) PROVE TypeOK'
    <2>1. order' \in [Orders -> Order \cup {Unused}]
        BY <1>13, <1>typed, <1>o, ClaimMarked DEF Release, o
    <2>2. job' \in Jobs
        <3>1. job[h].linked \in BOOLEAN
            BY <1>0, WorkingTyped
        <3>2. End(h) => job' \in Jobs
            BY <1>typed DEF End, TypeOK, Jobs
        <3> QED BY <1>13, <1>p, <3>1, <3>2 DEF Release
    <2> QED BY <1>13, <1>typed, <2>1, <2>2 DEF Release, shopify, TypeOK, Jobs
<1> QED BY <1>1, <1>2, <1>3, <1>4, <1>5, <1>6, <1>7, <1>8, <1>9, <1>10, <1>11, <1>12, <1>13

LEMMA EnvironmentTyped ==
    ASSUME Known,
           \/ \E h \in Handlers : Stop(h)
           \/ \E c \in Writers : MetadataWrite(c) \/ \E o \in Orders : MetadataRead(c, o)
           \/ \E o \in Orders : LateCreate(o) \/ LeaseEnds(o)
    PROVE  TypeOK'
<1>typed. TypeOK
    BY DEF Known
<1>1. ASSUME NEW h \in Handlers, Stop(h) PROVE TypeOK'
    <2>1. placed' \in [Orders -> Nat] /\ late' \in [Orders -> Nat]
        <3>1. CASE At(h, "create")
            <4>1. job[h] \in Working
                BY <3>1, <1>typed, JobKinds DEF At
            <4>2. job[h].order \in Orders
                BY <4>1, WorkingTyped
            <4>3. Unanswered(job[h].order)
                BY <1>1, <3>1 DEF Stop
            <4> QED BY <1>typed, <4>2, <4>3, CreateTyped
        <3>2. CASE ~At(h, "create")
            BY <1>1, <1>typed, <3>2 DEF Stop, TypeOK
        <3> QED BY <3>1, <3>2
    <2>2. job' \in [Handlers -> {Idle} \cup Asking \cup Working]
        BY <1>1, <1>typed DEF Stop, End, TypeOK
    <2> QED BY <1>1, <1>typed, <2>1, <2>2 DEF Stop, TypeOK
<1>2. ASSUME NEW c \in Writers, MetadataWrite(c) PROVE TypeOK'
    <2>1. rewrite[c] \in Rewriting /\ Made(rewrite[c].order)
        BY <1>2, <1>typed DEF MetadataWrite, TypeOK, Known, RewritesKnow
    <2>2. rewrite[c].order \in Orders /\ rewrite[c].meta \in Metadata
        BY <2>1 DEF Rewriting
    <2>3. order' \in [Orders -> Order \cup {Unused}] /\ hit' \subseteq Orders
        BY <1>2, <1>typed, <2>1, <2>2, WriteBackTyped DEF MetadataWrite
    <2>4. rewrite' \in [Writers -> {Idle} \cup Rewriting]
        BY <1>2, <1>typed DEF MetadataWrite, TypeOK
    <2> QED BY <1>2, <1>typed, <2>3, <2>4 DEF MetadataWrite, TypeOK
<1>3. ASSUME NEW c \in Writers, NEW o \in Orders, MetadataRead(c, o) PROVE TypeOK'
    <2>1. order[o].meta \in Metadata
        BY <1>3, <1>typed, RowKinds DEF MetadataRead, Made, Order
    <2>2. [at |-> "write", order |-> o, meta |-> order[o].meta] \in Rewriting
        BY <2>1 DEF Rewriting
    <2> QED BY <1>3, <1>typed, <2>2 DEF MetadataRead, TypeOK, shopify
<1>4. ASSUME NEW o \in Orders, LateCreate(o) PROVE TypeOK'
    <2>1. placed \in [Orders -> Nat] /\ late \in [Orders -> Nat]
        BY <1>typed DEF TypeOK
    <2>2. late[o] - 1 \in Nat /\ placed[o] + 1 \in Nat
        BY <1>4, <2>1 DEF LateCreate
    <2>3. late' \in [Orders -> Nat] /\ placed' \in [Orders -> Nat]
        BY <1>4, <2>1, <2>2 DEF LateCreate
    <2>4. hit' \subseteq Orders
        BY <1>4, <1>typed DEF LateCreate, TypeOK, Hit
    <2> QED BY <1>4, <1>typed, <2>3, <2>4 DEF LateCreate, TypeOK
<1>5. ASSUME NEW o \in Orders, LeaseEnds(o) PROVE TypeOK'
    <2>1. order' \in [Orders -> Order \cup {Unused}]
        BY <1>5, <1>typed, ClaimMarked DEF LeaseEnds, Made
    <2>2. hit' \subseteq Orders
        BY <1>5, <1>typed DEF LeaseEnds, TypeOK, Hit
    <2> QED BY <1>5, <1>typed, <2>1, <2>2 DEF LeaseEnds, TypeOK
<1> QED BY <1>1, <1>2, <1>3, <1>4, <1>5

LEMMA NextTyped == Known /\ [Next]_vars => TypeOK'
<1> SUFFICES ASSUME Known, [Next]_vars PROVE TypeOK'
    OBVIOUS
<1>1. CASE UNCHANGED vars
    BY <1>1 DEF vars, Known, TypeOK
<1> QED BY <1>1, SubmissionTyped, NotifyTyped, PushTyped, EnvironmentTyped DEF Next, Step

--------------------------------------------------------------------------------
(* What the rows and the handlers know of each other *)

\* What a step leaves of the orders, of what Shopify has for them, and of the keys.
OrdersKept ==
    \A o \in Orders :
        Made(o) => /\ order'[o] # Unused
                   /\ order'[o].key = order[o].key /\ order'[o].body = order[o].body
                   /\ order[o].linked # 0 => order'[o].linked # 0
NoneMade == \A o \in Orders : order'[o] # Unused => Made(o)
LinksSame == \A o \in Orders : Made(o) => order'[o].linked = order[o].linked
CountsKept ==
    \A o \in Orders : placed[o] <= placed'[o] /\ (~Made(o) => placed'[o] = 0 /\ late'[o] = 0)
LinksKept == \A o \in Orders : Made(o) => order'[o].linked <= placed'[o]
KeysKept ==
    \A k \in Keys :
        /\ key[k] # NoKeyRow <=> key'[k] # NoKeyRow
        /\ key[k] # NoKeyRow =>
            /\ key'[k].order = key[k].order /\ key'[k].body = key[k].body
            /\ key'[k].shopify = "linked" => order'[key[k].order].linked # 0
JobsKept == \A g \in Handlers : job'[g] \in Working => job'[g] = job[g] \/ Right(job[g])'
RewritesKept == \A c \in Writers : rewrite'[c] # Idle => rewrite'[c].order \in Orders /\ Made(rewrite'[c].order)

LEMMA SameOrders == Known /\ UNCHANGED order => OrdersKept /\ NoneMade /\ LinksSame
BY DEF Made, OrdersKept, NoneMade, LinksSame

LEMMA MarkedOrders ==
    ASSUME Known, NEW o \in Orders, Made(o), NEW m \in Metadata, Marked(o, m)
    PROVE  OrdersKept /\ NoneMade /\ LinksSame
<1>1. order[o] \in Order /\ order[o] # Unused
    BY RowKinds DEF Known
<1>2. order'[o] \in Order /\ order'[o].key = order[o].key /\ order'[o].body = order[o].body
      /\ order'[o].linked = order[o].linked
    BY <1>1 DEF Marked, Order
<1>3. order'[o] # Unused
    BY <1>2, RowKinds DEF Known
<1> QED BY <1>1, <1>2, <1>3 DEF Marked, OrdersKept, NoneMade, LinksSame, Made

LEMMA SameCounts == Known /\ UNCHANGED <<placed, late>> => CountsKept
<1> SUFFICES ASSUME Known, UNCHANGED <<placed, late>> PROVE CountsKept
    OBVIOUS
<1>1. placed \in [Orders -> Nat]
    BY DEF Known, TypeOK
<1>2. \A o \in Orders : placed[o] <= placed'[o]
    BY <1>1
<1>3. \A o \in Orders : ~Made(o) => placed'[o] = 0 /\ late'[o] = 0
    BY DEF Known, NothingUnmade
<1> QED BY <1>2, <1>3 DEF CountsKept

LEMMA MoreCounts ==
    ASSUME Known, NEW o \in Orders, Made(o),
           \/ placed' = [placed EXCEPT ![o] = @ + 1]
           \/ UNCHANGED placed,
           \A p \in Orders : p # o => late'[p] = late[p]
    PROVE  CountsKept
<1>1. placed \in [Orders -> Nat]
    BY DEF Known, TypeOK
<1>2. \A p \in Orders : placed[p] <= placed'[p] /\ (p # o => placed'[p] = placed[p])
    BY <1>1
<1>3. \A p \in Orders : ~Made(p) => placed'[p] = 0 /\ late'[p] = 0
    BY <1>2 DEF Known, NothingUnmade
<1> QED BY <1>2, <1>3 DEF CountsKept

LEMMA UnansweredCounts ==
    ASSUME Known, NEW o \in Orders, Made(o), Unanswered(o) \/ (Place(o) /\ UNCHANGED late)
    PROVE  CountsKept
<1>1. late \in [Orders -> Nat]
    BY DEF Known, TypeOK
<1>2. CASE Place(o) /\ UNCHANGED late
    BY <1>2, MoreCounts DEF Place
<1>3. CASE UNCHANGED <<placed, late>>
    BY <1>3, SameCounts
<1>4. CASE late' = [late EXCEPT ![o] = @ + 1] /\ UNCHANGED placed
    BY <1>1, <1>4, MoreCounts
<1> QED BY <1>2, <1>3, <1>4 DEF Unanswered

LEMMA SameLinks ==
    ASSUME Known, TypeOK', LinksSame, CountsKept
    PROVE  LinksKept
<1> SUFFICES ASSUME NEW o \in Orders, Made(o) PROVE order'[o].linked <= placed'[o]
    BY DEF LinksKept
<1>1. order[o].linked <= placed[o] /\ order[o].linked \in Nat
    BY RowKinds DEF Known, LinksExist, Order
<1>2. placed[o] \in Nat /\ placed'[o] \in Nat /\ placed[o] <= placed'[o]
    BY DEF Known, TypeOK, CountsKept
<1>3. order'[o].linked = order[o].linked
    BY DEF LinksSame
<1> QED BY <1>1, <1>2, <1>3

LEMMA SameKeys ==
    ASSUME Known, OrdersKept, UNCHANGED key
    PROVE  KeysKept
<1>1. \A k \in Keys : key[k] # NoKeyRow => key[k].order \in Orders /\ Made(key[k].order)
    BY RowKinds DEF Known, RowsAgree, KeyRow
<1>2. \A k \in Keys : key[k] # NoKeyRow /\ key[k].shopify = "linked" => order[key[k].order].linked # 0
    BY DEF Known, LinksExist
<1> QED BY <1>1, <1>2 DEF KeysKept, OrdersKept

\* What a handler knows stays true.
LEMMA RightStays ==
    ASSUME Known, TypeOK', OrdersKept, CountsKept, NEW w \in Working, Right(w)
    PROVE  Right(w)'
<1>1. w.order \in Orders /\ w.got \in Nat
    BY WorkingTyped
<1>2. Made(w.order)' /\ order'[w.order].key = w.key /\ order'[w.order].body = w.body
    BY <1>1 DEF Right, OrdersKept, Made
<1>3. w.linked => order'[w.order].linked # 0
    BY <1>1 DEF Right, OrdersKept
<1>4. w.at = "link" => 1 <= w.got /\ w.got <= placed'[w.order]
    <2> SUFFICES ASSUME w.at = "link" PROVE 1 <= w.got /\ w.got <= placed'[w.order]
        OBVIOUS
    <2>1. placed[w.order] \in Nat /\ placed'[w.order] \in Nat /\ placed[w.order] <= placed'[w.order]
        BY <1>1 DEF Known, TypeOK, CountsKept
    <2>2. 1 <= w.got /\ w.got <= placed[w.order]
        BY DEF Right
    <2> QED BY <1>1, <2>1, <2>2
<1> QED BY <1>2, <1>3, <1>4 DEF Right

LEMMA KnownStays ==
    ASSUME Known, TypeOK', OrdersKept, NoneMade, CountsKept, LinksKept, KeysKept, JobsKept, RewritesKept
    PROVE  Known'
<1>typed. TypeOK
    BY DEF Known
<1>k. \A k \in Keys : key[k] # NoKeyRow => key[k].order \in Orders
    BY <1>typed, RowKinds DEF KeyRow
<1>o. \A o \in Orders : Made(o) => order[o].key \in Keys
    BY <1>typed, RowKinds DEF Order
<1>1. RowsAgree'
    <2>1. ASSUME NEW k \in Keys, key'[k] # NoKeyRow
          PROVE  Made(key[k].order)' /\ order'[key'[k].order].key = k /\ order'[key'[k].order].body = key'[k].body
        <3>1. key[k] # NoKeyRow /\ key'[k].order = key[k].order /\ key'[k].body = key[k].body
            BY <2>1 DEF KeysKept
        <3>2. Made(key[k].order) /\ order[key[k].order].key = k /\ order[key[k].order].body = key[k].body
            BY <3>1 DEF Known, RowsAgree
        <3> QED BY <1>k, <3>1, <3>2 DEF OrdersKept, Made
    <2>2. ASSUME NEW o \in Orders, Made(o)'
          PROVE  key'[order'[o].key] # NoKeyRow /\ key'[order'[o].key].order = o
        <3>1. Made(o) /\ order'[o].key = order[o].key
            BY <2>2 DEF OrdersKept, NoneMade, Made
        <3>2. key[order[o].key] # NoKeyRow /\ key[order[o].key].order = o
            BY <3>1 DEF Known, RowsAgree
        <3> QED BY <1>o, <3>1, <3>2 DEF KeysKept
    <2> QED BY <2>1, <2>2 DEF RowsAgree
<1>2. JobsKnow'
    <2> SUFFICES ASSUME NEW g \in Handlers, job'[g] \in Working PROVE Right(job[g])'
        BY DEF JobsKnow
    <2>1. CASE job'[g] = job[g]
        <3>1. \A w \in Working : Right(w) => Right(w)'
            BY RightStays
        <3>2. Right(job[g])
            BY <2>1 DEF Known, JobsKnow
        <3>3. \A w \in Working : w = job[g] => Right(w)'
            BY <3>1, <3>2
        <3> QED BY <2>1, <3>3 DEF Right
    <2>2. CASE Right(job[g])'
        BY <2>2
    <2> QED BY <2>1, <2>2 DEF JobsKept
<1>3. RewritesKnow'
    BY DEF RewritesKept, RewritesKnow, OrdersKept, Made
<1>4. NothingUnmade'
    BY DEF OrdersKept, CountsKept, NothingUnmade, Made
<1>5. LinksExist'
    BY DEF KeysKept, NoneMade, LinksKept, LinksExist, Made
<1> QED BY <1>1, <1>2, <1>3, <1>4, <1>5 DEF Known

\* The row of a key and its order appear together.
LEMMA MakeKnown ==
    ASSUME Known, TypeOK', NEW h \in Handlers, Insert(h), key[job[h].key] = NoKeyRow
    PROVE  Known'
<1>typed. TypeOK
    BY DEF Known
<1>0. job[h] \in Asking
    BY <1>typed, JobKinds DEF Insert, At
<1> DEFINE k == job[h].key
           b == job[h].body
<1>1. k \in Keys /\ b \in Bodies
    BY <1>0 DEF Asking
<1>2. PICK o \in Orders : Make(h, o)
    BY DEF Insert
<1> DEFINE r == [made |-> TRUE, key |-> k, body |-> b, linked |-> 0, meta |-> NoMetadata]
           s == [status |-> "ORDER_CREATED", order |-> o, body |-> b, shopify |-> "none"]
           w == Work("look", "first", k, b, o)
<1>3. /\ order[o] = Unused
      /\ order' = [order EXCEPT ![o] = r]
      /\ key' = [key EXCEPT ![k] = s]
      /\ job' = [job EXCEPT ![h] = w]
      /\ UNCHANGED <<rewrite, placed, late>>
    BY <1>2 DEF Make, Insert, shopify
<1>4. r \in Order /\ r.key = k /\ r.body = b /\ r.linked = 0
    BY <1>1 DEF Order, NoMetadata, Metadata
<1>5. s \in KeyRow /\ s.order = o /\ s.body = b /\ s.shopify = "none"
    BY <1>1 DEF KeyRow
<1>6. w \in Working /\ w.key = k /\ w.body = b /\ w.order = o /\ w.linked = FALSE /\ w.at = "look"
    BY <1>1, WorkTyped DEF Work
<1> HIDE DEF r, s, w, k, b
<1>7. /\ order'[o] = r /\ order'[o] # Unused /\ ~Made(o)
      /\ \A p \in Orders : p # o => order'[p] = order[p]
    BY <1>typed, <1>3, <1>4, RowKinds DEF TypeOK, Made
<1>8. /\ key'[k] = s /\ key'[k] # NoKeyRow
      /\ \A l \in Keys : l # k => key'[l] = key[l]
    BY <1>typed, <1>1, <1>3, <1>5, RowKinds DEF TypeOK
<1>9. key[k] = NoKeyRow
    BY DEF k
<1>10. \A l \in Keys : key[l] # NoKeyRow => key[l].order \in Orders /\ Made(key[l].order)
                                          /\ key[l].order # o /\ l # k
    BY <1>7, <1>9, <1>typed, RowKinds DEF Known, RowsAgree, KeyRow
<1>11. \A p \in Orders : Made(p) => order[p].key \in Keys /\ order[p].key # k /\ p # o
    BY <1>7, <1>9, <1>typed, RowKinds DEF Known, RowsAgree, Order
<1>12. OrdersKept /\ CountsKept
    <2>1. OrdersKept
        BY <1>7, <1>11 DEF OrdersKept, Made
    <2> QED BY <2>1, <1>3, SameCounts
<1>13. RowsAgree'
    <2>1. ASSUME NEW l \in Keys, key'[l] # NoKeyRow
          PROVE  Made(key[l].order)' /\ order'[key'[l].order].key = l /\ order'[key'[l].order].body = key'[l].body
        <3>1. CASE l = k
            BY <3>1, <1>4, <1>5, <1>7, <1>8 DEF Made
        <3>2. CASE l # k
            BY <2>1, <3>2, <1>7, <1>8, <1>10 DEF Known, RowsAgree, Made
        <3> QED BY <3>1, <3>2
    <2>2. ASSUME NEW p \in Orders, Made(p)'
          PROVE  key'[order'[p].key] # NoKeyRow /\ key'[order'[p].key].order = p
        <3>1. CASE p = o
            BY <3>1, <1>4, <1>5, <1>7, <1>8
        <3>2. CASE p # o
            BY <2>2, <3>2, <1>7, <1>8, <1>11 DEF Known, RowsAgree, Made
        <3> QED BY <3>1, <3>2
    <2> QED BY <2>1, <2>2 DEF RowsAgree
<1>14. JobsKnow'
    <2>1. \A v \in Working : Right(v) => Right(v)'
        BY <1>12, RightStays
    <2>2. ASSUME NEW g \in Handlers, job'[g] \in Working PROVE Right(job[g])'
        <3>1. CASE g = h
            <4>1. job'[g] = w
                BY <3>1, <1>3, <1>typed DEF TypeOK
            <4> QED BY <4>1, <1>4, <1>6, <1>7 DEF Right, Made
        <3>2. CASE g # h
            <4>1. job'[g] = job[g]
                BY <3>2, <1>3, <1>typed DEF TypeOK
            <4>2. Right(job[g])
                BY <2>2, <4>1 DEF Known, JobsKnow
            <4>3. \A v \in Working : v = job[g] => Right(v)'
                BY <2>1, <4>2
            <4> QED BY <2>2, <4>1, <4>3 DEF Right
        <3> QED BY <3>1, <3>2
    <2> QED BY <2>2 DEF JobsKnow
<1>15. RewritesKnow'
    BY <1>3, <1>7, <1>typed DEF Known, RewritesKnow, Made, Rewriting, TypeOK
<1>16. NothingUnmade'
    BY <1>3, <1>7 DEF Known, NothingUnmade, Made
<1>17. LinksExist'
    <2>1. \A p \in Orders : Made(p)' => order'[p].linked <= placed'[p]
        <3>1. placed[o] = 0 /\ placed' = placed
            BY <1>3, <1>7 DEF Known, NothingUnmade
        <3>2. order'[o].linked <= placed'[o]
            BY <1>4, <1>7, <3>1
        <3> QED BY <3>1, <3>2, <1>7 DEF Known, LinksExist, Made
    <2>2. \A l \in Keys : key'[l] # NoKeyRow /\ key'[l].shopify = "linked" => order'[key'[l].order].linked # 0
        BY <1>5, <1>7, <1>8, <1>10 DEF Known, LinksExist
    <2> QED BY <2>1, <2>2 DEF LinksExist
<1> QED BY <1>13, <1>14, <1>15, <1>16, <1>17 DEF Known

\* A step of handler h that leaves the rows as they are.
LEMMA OnlyJobs ==
    ASSUME Known, TypeOK', UNCHANGED <<order, key, rewrite, placed, late>>, JobsKept
    PROVE  Known'
<1>1. OrdersKept /\ NoneMade /\ LinksSame /\ CountsKept /\ LinksKept
    BY SameOrders, SameCounts, SameLinks
<1>2. KeysKept
    BY <1>1, SameKeys
<1>3. RewritesKept
    BY DEF Known, TypeOK, Rewriting, RewritesKnow, RewritesKept
<1> QED BY <1>1, <1>2, <1>3, KnownStays

\* A new job on an order that was made for the key and the body.
LEMMA WorkRight ==
    ASSUME NEW k \in Keys, NEW b \in Bodies, NEW o \in Orders, NEW why, NEW phase, phase # "link",
           Made(o), order[o].key = k, order[o].body = b
    PROVE  /\ Right(Work(phase, why, k, b, o))
           /\ \A l \in BOOLEAN : (l => order[o].linked # 0) =>
                Right([Work(phase, why, k, b, o) EXCEPT !.linked = l])
BY DEF Right, Work

LEMMA SubmissionKnown ==
    ASSUME Known, TypeOK', NEW h \in Handlers,
           \/ \E k \in Keys, b \in Bodies : Submit(h, k, b)
           \/ Find(h) \/ Insert(h) \/ Wait(h) \/ Complete(h) \/ Answer(h) \/ Store(h)
           \/ \E o \in Orders : RetryPush(h, o)
    PROVE  Known'
<1>typed. TypeOK
    BY DEF Known
<1>1. ASSUME NEW k \in Keys, NEW b \in Bodies, Submit(h, k, b) PROVE Known'
    <2>1. job'[h].at = "find" /\ \A g \in Handlers : g # h => job'[g] = job[g]
        BY <1>1, <1>typed DEF Submit, TypeOK
    <2>2. JobsKept
        <3>1. job'[h] \notin Working
            BY <2>1 DEF Working, Pushing
        <3> QED BY <2>1, <3>1 DEF JobsKept
    <2> QED BY <1>1, <2>2, OnlyJobs DEF Submit, shopify
<1>2. ASSUME Find(h) PROVE Known'
    <2>1. job[h] \in Asking
        BY <1>2, <1>typed, JobKinds DEF Find, At
    <2> DEFINE k == job[h].key
               b == job[h].body
               o == key[k].order
    <2>2. k \in Keys /\ b \in Bodies
        BY <2>1 DEF Asking
    <2>3. JobsKept
        <3>1. \A g \in Handlers : g # h => job'[g] = job[g]
            BY <1>2, <1>typed DEF Find, Goto, End, TypeOK
        <3>2. CASE key[k] = NoKeyRow
            <4>1. job'[h].at = "insert"
                BY <1>2, <1>typed, <2>1, <3>2 DEF Find, Goto, TypeOK, Asking
            <4>2. job'[h] \notin Working
                BY <4>1 DEF Working, Pushing
            <4> QED BY <3>1, <4>2 DEF JobsKept
        <3>3. CASE key[k] # NoKeyRow /\ key[k].body # b
            <4>1. job'[h].at = "idle"
                BY <1>2, <1>typed, <3>3 DEF Find, End, TypeOK, Idle
            <4>2. job'[h] \notin Working
                BY <4>1 DEF Working, Pushing
            <4> QED BY <3>1, <4>2 DEF JobsKept
        <3>4. CASE key[k] # NoKeyRow /\ key[k].body = b
            <4>1. o \in Orders /\ Made(o) /\ order[o].key = k /\ order[o].body = b
                BY <2>2, <3>4, <1>typed, RowKinds DEF Known, RowsAgree, KeyRow
            <4> DEFINE w == Work("wait", "finish", k, b, o)
            <4>2. job'[h] = w
                BY <1>2, <1>typed, <3>4 DEF Find, TypeOK
            <4>3. Right(w)
                BY <2>2, <4>1, WorkRight
            <4>4. UNCHANGED <<order, placed>>
                BY <1>2 DEF Find, shopify
            <4> HIDE DEF w
            <4>5. Right(job[h])'
                BY <4>2, <4>3, <4>4 DEF Right, Made
            <4> QED BY <3>1, <4>5 DEF JobsKept
        <3> QED BY <3>2, <3>3, <3>4
    <2> QED BY <1>2, <2>3, OnlyJobs DEF Find, shopify
<1>3. ASSUME Insert(h) PROVE Known'
    <2>1. CASE key[job[h].key] = NoKeyRow
        BY <1>3, <2>1, MakeKnown
    <2>2. CASE key[job[h].key] # NoKeyRow
        <3>1. job[h] \in Asking
            BY <1>3, <1>typed, JobKinds DEF Insert, At
        <3>2. job'[h].at = "find" /\ \A g \in Handlers : g # h => job'[g] = job[g]
            BY <1>3, <1>typed, <2>2, <3>1 DEF Insert, Goto, TypeOK, Asking
        <3>3. job'[h] \notin Working
            BY <3>2 DEF Working, Pushing
        <3>4. JobsKept
            BY <3>2, <3>3 DEF JobsKept
        <3> QED BY <1>3, <2>2, <3>4, OnlyJobs DEF Insert, shopify
    <2> QED BY <2>1, <2>2
<1>w. ASSUME Wait(h) \/ Complete(h) \/ Answer(h) \/ Store(h) PROVE job[h] \in Working
    BY <1>w, <1>typed, JobKinds DEF Wait, Complete, Answer, Store, At
<1>4. ASSUME Wait(h) PROVE Known'
    <2>1. Right(job[h]) /\ job[h] \in Working
        BY <1>4, <1>w DEF Known, JobsKnow
    <2>2. \A g \in Handlers : g # h => job'[g] = job[g]
        BY <1>4, <1>typed DEF Wait, Goto, TypeOK
    <2>3. /\ job'[h].at \in {"answer", "look"} /\ job'[h].order = job[h].order /\ job'[h].key = job[h].key
          /\ job'[h].body = job[h].body /\ job'[h].linked = job[h].linked
        BY <1>4, <2>1, <1>typed DEF Wait, Goto, TypeOK, Working
    <2>4. Right(job[h])'
        BY <1>4, <2>1, <2>3 DEF Right, Made, Wait
    <2>5. JobsKept
        BY <2>2, <2>4 DEF JobsKept
    <2> QED BY <1>4, <2>5, OnlyJobs DEF Wait, shopify
<1>5. ASSUME Complete(h) \/ Store(h) PROVE Known'
    <2>1. Right(job[h]) /\ job[h] \in Working
        BY <1>5, <1>w DEF Known, JobsKnow
    <2> DEFINE k == job[h].key
    <2>2. k \in Keys /\ key[k] \in KeyRow /\ key[k] # NoKeyRow /\ key[k].order = job[h].order
          /\ job[h].order \in Orders
        BY <2>1, WorkKnown
    <2>3. UNCHANGED <<order, rewrite, placed, late>>
        BY <1>5 DEF Complete, Store, shopify
    <2>4. OrdersKept /\ NoneMade /\ LinksSame /\ CountsKept /\ LinksKept
        BY <2>3, SameOrders, SameCounts, SameLinks
    <2>5. /\ \A l \in Keys : l # k => key'[l] = key[l]
          /\ key'[k] \in KeyRow /\ key'[k].order = key[k].order /\ key'[k].body = key[k].body
          /\ key'[k] = key[k] \/ key'[k].shopify = IF job[h].linked THEN "linked" ELSE "failed"
        BY <1>5, <1>typed, <2>2 DEF Complete, Store, TypeOK, KeyRow
    <2>6. KeysKept
        <3>1. \A l \in Keys : key[l] # NoKeyRow => key[l].order \in Orders
            BY <1>typed, RowKinds DEF KeyRow
        <3>2. \A l \in Keys : key[l] # NoKeyRow /\ key[l].shopify = "linked" => order[key[l].order].linked # 0
            BY DEF Known, LinksExist
        <3>3. key'[k].shopify = "linked" => order'[key[k].order].linked # 0
            <4>1. CASE key'[k] = key[k]
                BY <4>1, <2>2, <2>3, <3>2
            <4>2. CASE key'[k].shopify = IF job[h].linked THEN "linked" ELSE "failed"
                BY <4>2, <2>1, <2>2, <2>3 DEF Right
            <4> QED BY <4>1, <4>2, <2>5
        <3>4. key'[k] # NoKeyRow
            BY <1>typed, <2>5, RowKinds
        <3> QED BY <2>2, <2>3, <2>5, <3>1, <3>2, <3>3, <3>4 DEF KeysKept
    <2>7. JobsKept
        <3>1. \A g \in Handlers : g # h => job'[g] = job[g]
            BY <1>5, <1>typed DEF Complete, Store, Goto, End, TypeOK
        <3>2. CASE job' = [job EXCEPT ![h] = Idle]
            <4>1. job'[h].at = "idle"
                BY <3>2, <1>typed DEF TypeOK, Idle
            <4>2. job'[h] \notin Working
                BY <4>1 DEF Working, Pushing
            <4> QED BY <3>1, <4>2 DEF JobsKept
        <3>3. CASE Goto(h, "answer")
            <4>1. /\ job'[h].at = "answer" /\ job'[h].order = job[h].order /\ job'[h].key = job[h].key
                  /\ job'[h].body = job[h].body /\ job'[h].linked = job[h].linked
                BY <3>3, <2>1, <1>typed DEF Goto, TypeOK, Working
            <4>2. Right(job[h])'
                BY <2>1, <2>3, <4>1 DEF Right, Made
            <4> QED BY <3>1, <4>2 DEF JobsKept
        <3> QED BY <1>5, <3>2, <3>3 DEF Complete, Store, End
    <2>8. RewritesKept
        BY <1>typed, <2>3 DEF Known, TypeOK, Rewriting, RewritesKnow, RewritesKept
    <2> QED BY <2>4, <2>6, <2>7, <2>8, KnownStays
<1>6. ASSUME Answer(h) PROVE Known'
    <2>1. job[h] \in Working
        BY <1>6, <1>w
    <2>2. /\ job[h].key \in Keys /\ job[h].body \in Bodies /\ job[h].order \in Orders /\ Made(job[h].order)
          /\ order[job[h].order].key = job[h].key /\ order[job[h].order].body = job[h].body
        BY <2>1, WorkKnown, WorkingTyped
    <2> DEFINE w == Work("look", "again", job[h].key, job[h].body, job[h].order)
    <2>3. Right(w)
        BY <2>2, WorkRight
    <2>4. \A g \in Handlers : g # h => job'[g] = job[g]
        BY <1>6, <1>typed DEF Answer, End, TypeOK
    <2>5. job'[h] = w \/ job'[h] = Idle
        BY <1>6, <1>typed DEF Answer, End, TypeOK
    <2>6. Idle \notin Working
        BY DEF Idle, Working, Pushing
    <2>7. UNCHANGED <<order, placed>>
        BY <1>6 DEF Answer, shopify
    <2> HIDE DEF w
    <2>8. job'[h] = w => Right(job[h])'
        BY <2>3, <2>7 DEF Right, Made
    <2>9. JobsKept
        BY <2>4, <2>5, <2>6, <2>8 DEF JobsKept
    <2> QED BY <1>6, <2>9, OnlyJobs DEF Answer, shopify
<1>7. ASSUME NEW o \in Orders, RetryPush(h, o) PROVE Known'
    <2>1. Made(o) /\ order[o].key \in Keys /\ order[o].body \in Bodies
        BY <1>7, <1>typed, RowKinds DEF RetryPush, Made, Order
    <2> DEFINE w == Work("look", "retry", order[o].key, order[o].body, o)
    <2>2. Right(w)
        BY <2>1, WorkRight
    <2>3. job'[h] = w /\ \A g \in Handlers : g # h => job'[g] = job[g]
        BY <1>7, <1>typed DEF RetryPush, TypeOK
    <2>4. UNCHANGED <<order, placed>>
        BY <1>7 DEF RetryPush, shopify
    <2> HIDE DEF w
    <2>5. Right(job[h])'
        BY <2>2, <2>3, <2>4 DEF Right, Made
    <2>6. JobsKept
        BY <2>3, <2>5 DEF JobsKept
    <2> QED BY <1>7, <2>6, OnlyJobs DEF RetryPush, shopify
<1> QED BY <1>1, <1>2, <1>3, <1>4, <1>5, <1>6, <1>7

\* A push goes on, or is over, with what its handler knows.
LEMMA PushRight ==
    ASSUME Known, TypeOK', OrdersKept, CountsKept, NEW h \in Handlers, job[h] \in Working,
           \/ \E p \in Pushing \cup {"claim"} : p # "link" /\ Goto(h, p)
           \/ \E l \in BOOLEAN : (l => order'[job[h].order].linked # 0) /\ (Releasing(h, l) \/ Pushed(h, l))
           \/ End(h)
           \/ UNCHANGED job
    PROVE  JobsKept
<1>typed. TypeOK
    BY DEF Known
<1>1. Right(job[h])
    BY DEF Known, JobsKnow
<1>2. Right(job[h]) /\ job[h].order \in Orders /\ job[h].key \in Keys /\ job[h].body \in Bodies
    BY <1>1, WorkingTyped
<1>3. \A w \in Working : Right(w) => Right(w)'
    BY RightStays
<1>4. /\ order'[job[h].order] # Unused
      /\ order'[job[h].order].key = job[h].key /\ order'[job[h].order].body = job[h].body
      /\ order[job[h].order].linked # 0 => order'[job[h].order].linked # 0
    BY <1>2 DEF OrdersKept, Right
<1>5. ASSUME NEW p \in Pushing \cup {"claim"}, p # "link", Goto(h, p) PROVE JobsKept
    <2>1. \A g \in Handlers : g # h => job'[g] = job[g]
        BY <1>5, <1>typed DEF Goto, TypeOK
    <2>2. /\ job'[h].at = p /\ job'[h].order = job[h].order /\ job'[h].key = job[h].key
          /\ job'[h].body = job[h].body /\ job'[h].linked = job[h].linked
        BY <1>5, <1>typed DEF Goto, TypeOK, Working
    <2>3. Right(job[h])'
        BY <1>2, <1>4, <1>5, <2>2 DEF Right, Made
    <2> QED BY <2>1, <2>3 DEF JobsKept
<1>6. ASSUME NEW l \in BOOLEAN, l => order'[job[h].order].linked # 0, Releasing(h, l) PROVE JobsKept
    <2>1. \A g \in Handlers : g # h => job'[g] = job[g]
        BY <1>6, <1>typed DEF Releasing, TypeOK
    <2>2. /\ job'[h].at = "release" /\ job'[h].order = job[h].order /\ job'[h].key = job[h].key
          /\ job'[h].body = job[h].body /\ job'[h].linked = l
        BY <1>6, <1>typed DEF Releasing, TypeOK, Working
    <2>3. Right(job[h])'
        BY <1>4, <1>6, <2>2 DEF Right, Made
    <2> QED BY <2>1, <2>3 DEF JobsKept
<1>7. ASSUME NEW l \in BOOLEAN, l => order'[job[h].order].linked # 0, Pushed(h, l) PROVE JobsKept
    <2> DEFINE p == Onward[job[h].why]
               w == [Work(p, job[h].why, job[h].key, job[h].body, job[h].order) EXCEPT !.linked = l]
    <2>1. \A g \in Handlers : g # h => job'[g] = job[g]
        BY <1>7, <1>typed DEF Pushed, TypeOK
    <2>2. job'[h] = IF job[h].why = "retry" THEN Idle ELSE w
        BY <1>7, <1>typed DEF Pushed, TypeOK
    <2>3. Idle \notin Working
        BY DEF Idle, Working, Pushing
    <2>4. /\ w.at = p /\ w.order = job[h].order /\ w.key = job[h].key
          /\ w.body = job[h].body /\ w.linked = l
        BY DEF Work
    <2>5. job[h].why # "retry" => p \in {"notify", "complete", "store"}
        BY WorkingTyped, OnwardPhases
    <2> HIDE DEF p, w
    <2>6. job[h].why # "retry" => Right(job[h])'
        BY <1>4, <1>7, <2>2, <2>4, <2>5 DEF Right, Made
    <2> QED BY <2>1, <2>2, <2>3, <2>6 DEF JobsKept
<1>8. ASSUME End(h) PROVE JobsKept
    <2>1. \A g \in Handlers : g # h => job'[g] = job[g]
        BY <1>8, <1>typed DEF End, TypeOK
    <2>2. job'[h] = Idle
        BY <1>8, <1>typed DEF End, TypeOK
    <2>3. Idle \notin Working
        BY DEF Idle, Working, Pushing
    <2> QED BY <2>1, <2>2, <2>3 DEF JobsKept
<1>9. ASSUME UNCHANGED job PROVE JobsKept
    BY <1>9 DEF JobsKept
<1> QED BY <1>5, <1>6, <1>7, <1>8, <1>9

\* A step of a push.
LEMMA PushStep ==
    ASSUME Known, TypeOK', OrdersKept, NoneMade, LinksSame, CountsKept, UNCHANGED <<key, rewrite>>, JobsKept
    PROVE  Known'
<1>1. LinksKept /\ KeysKept
    BY SameLinks, SameKeys
<1>2. RewritesKept
    BY DEF Known, TypeOK, Rewriting, RewritesKnow, RewritesKept
<1> QED BY <1>1, <1>2, KnownStays

\* The notification of a new order leaves what its handler knows.
LEMMA NotifyKnown ==
    ASSUME Known, TypeOK', NEW h \in Handlers, NotifyRead(h) \/ NotifyWrite(h)
    PROVE  Known'
<1>typed. TypeOK
    BY DEF Known
<1>1. UNCHANGED <<key, rewrite, placed, late>>
    BY DEF NotifyRead, NotifyWrite, shopify
<1>2. OrdersKept /\ NoneMade /\ LinksSame /\ CountsKept
    <2>1. CASE UNCHANGED order
        BY <1>1, <2>1, SameOrders, SameCounts
    <2>2. CASE WriteBack(job[h].order, job[h].meta)
        BY <1>typed, <1>1, <2>2, NotifyJobs, WriteBackTyped, MarkedOrders, SameCounts
    <2> QED BY <2>1, <2>2 DEF NotifyRead, NotifyWrite
<1>3. job[h] \in Working /\ job[h].order \in Orders /\ Right(job[h])
    BY NotifyJobs DEF Known, JobsKnow
<1>4. /\ job'[h].at \in {"noted", "complete"} /\ job'[h].order = job[h].order
      /\ job'[h].key = job[h].key /\ job'[h].body = job[h].body /\ job'[h].linked = job[h].linked
      /\ \A g \in Handlers : g # h => job'[g] = job[g]
    BY NotifyJobs
<1>5. Right(job[h])'
    BY <1>2, <1>3, <1>4 DEF Right, OrdersKept, Made
<1>6. JobsKept
    BY <1>4, <1>5 DEF JobsKept
<1> QED BY <1>1, <1>2, <1>6, PushStep

LEMMA PushKnown ==
    ASSUME Known, TypeOK', NEW h \in Handlers,
           \/ Look(h) \/ Claim(h) \/ Read(h) \/ Lookup(h)
           \/ CreateAnswered(h) \/ CreateRefused(h) \/ CreateUnanswered(h) \/ CreateResent(h)
           \/ Note(h) \/ Record(h) \/ Link(h) \/ WriteFails(h) \/ Release(h)
    PROVE  Known'
<1>typed. TypeOK
    BY DEF Known
<1>0. job[h] \in Working
    BY <1>typed, JobKinds DEF Look, Claim, Read, Lookup, CreateAnswered, CreateRefused, CreateUnanswered,
          CreateResent, Note, Record, Link, WriteFails, Release, At
<1>1. /\ job[h].order \in Orders /\ Made(job[h].order) /\ order[job[h].order] \in Order
      /\ order[job[h].order].meta \in Metadata /\ Right(job[h])
    BY <1>0, WorkKnown DEF Order, Known, JobsKnow
<1>2. ASSUME Look(h) \/ Read(h) \/ CreateRefused(h) PROVE Known'
    <2>1. UNCHANGED <<order, key, rewrite, placed, late>>
        BY <1>2 DEF Look, Read, CreateRefused, shopify
    <2>2. OrdersKept /\ CountsKept
        BY <2>1, SameOrders, SameCounts
    <2>3. JobsKept
        BY <1>0, <1>2, <2>1, <2>2, PushRight DEF Look, Read, CreateRefused, Pushing
    <2> QED BY <2>1, <2>3, OnlyJobs
<1>3. ASSUME Claim(h) PROVE Known'
    <2>1. UNCHANGED <<key, rewrite, placed, late>>
        BY <1>3 DEF Claim, shopify
    <2>2. CASE Claimable(job[h].order)
        <3>1. order' = [order EXCEPT ![job[h].order].meta = Claimed(@)] /\ Goto(h, "read")
            BY <1>3, <2>2 DEF Claim
        <3>2. order' = [order EXCEPT ![job[h].order].meta = Claimed(order[job[h].order].meta)]
            BY <3>1, <1>typed, <1>1 DEF TypeOK
        <3>3. Claimed(order[job[h].order].meta) \in Metadata
            BY <1>1 DEF Claimed, Metadata
        <3>4. OrdersKept /\ NoneMade /\ LinksSame /\ CountsKept
            BY <1>1, <1>typed, <2>1, <3>2, <3>3, MarkedTyped, MarkedOrders, SameCounts
        <3>5. JobsKept
            BY <1>0, <3>1, <3>4, PushRight DEF Pushing
        <3> QED BY <2>1, <3>4, <3>5, PushStep
    <2>3. CASE ~Claimable(job[h].order)
        <3> DEFINE l == order[job[h].order].linked # 0
        <3>1. Pushed(h, l) /\ UNCHANGED order
            BY <1>3, <2>3 DEF Claim
        <3>2. OrdersKept /\ CountsKept
            BY <2>1, <3>1, SameOrders, SameCounts
        <3>3. l \in BOOLEAN /\ (l => order'[job[h].order].linked # 0)
            BY <3>1
        <3> HIDE DEF l
        <3>4. JobsKept
            BY <1>0, <3>1, <3>2, <3>3, PushRight
        <3> QED BY <2>1, <3>1, <3>4, OnlyJobs
    <2> QED BY <2>2, <2>3
<1>4. ASSUME Lookup(h) PROVE Known'
    <2>1. UNCHANGED <<order, key, rewrite, placed, late>>
        BY <1>4 DEF Lookup, shopify
    <2>2. OrdersKept /\ CountsKept
        BY <2>1, SameOrders, SameCounts
    <2>3. JobsKept
        <3>1. CASE placed[job[h].order] = 1 /\ job' = [job EXCEPT ![h].at = "link", ![h].got = 1]
            <4>1. \A g \in Handlers : g # h => job'[g] = job[g]
                BY <3>1, <1>typed DEF TypeOK
            <4>2. /\ job'[h].order = job[h].order /\ job'[h].key = job[h].key
                  /\ job'[h].body = job[h].body /\ job'[h].linked = job[h].linked /\ job'[h].got = 1
                BY <3>1, <1>0, <1>typed DEF TypeOK, Working
            <4>3. Right(job[h])'
                BY <1>1, <2>1, <3>1, <4>2 DEF Right, Made
            <4> QED BY <4>1, <4>3 DEF JobsKept
        <3>2. CASE Goto(h, "create") \/ Goto(h, "unanswered") \/ Releasing(h, FALSE)
            BY <1>0, <3>2, <2>2, PushRight DEF Pushing
        <3> QED BY <1>4, <3>1, <3>2 DEF Lookup
    <2> QED BY <2>1, <2>3, OnlyJobs
<1>5. ASSUME CreateAnswered(h) PROVE Known'
    <2> DEFINE o == job[h].order
    <2>1. UNCHANGED <<order, key, rewrite, late>> /\ placed' = [placed EXCEPT ![o] = @ + 1]
        BY <1>5 DEF CreateAnswered, Place
    <2>2. OrdersKept /\ NoneMade /\ LinksSame /\ CountsKept
        BY <2>1, <1>1, SameOrders, MoreCounts
    <2>3. JobsKept
        <3> DEFINE n == placed'[o]
        <3>1. job' = [job EXCEPT ![h].at = "link", ![h].got = n]
            BY <1>5 DEF CreateAnswered
        <3>2. 1 <= n
            BY <1>1, <1>typed, <2>1 DEF TypeOK
        <3>3. n <= placed'[o] /\ n \in Nat
            BY <1>1 DEF TypeOK
        <3> HIDE DEF n
        <3>4. \A g \in Handlers : g # h => job'[g] = job[g]
            BY <3>1, <1>typed DEF TypeOK
        <3>5. /\ job'[h].order = o /\ job'[h].key = job[h].key
              /\ job'[h].body = job[h].body /\ job'[h].linked = job[h].linked /\ job'[h].got = n
            BY <3>1, <1>0, <1>typed DEF TypeOK, Working
        <3>6. Right(job[h])'
            BY <1>1, <2>1, <3>2, <3>3, <3>5 DEF Right, Made
        <3> QED BY <3>4, <3>6 DEF JobsKept
    <2> QED BY <2>1, <2>2, <2>3, PushStep
<1>6. ASSUME CreateUnanswered(h) PROVE Known'
    <2>1. UNCHANGED <<order, key, rewrite>> /\ Unanswered(job[h].order) /\ Goto(h, "unanswered")
        BY <1>6 DEF CreateUnanswered
    <2>2. OrdersKept /\ NoneMade /\ LinksSame /\ CountsKept
        BY <2>1, <1>1, SameOrders, UnansweredCounts
    <2>3. JobsKept
        BY <1>0, <2>1, <2>2, PushRight DEF Pushing
    <2> QED BY <2>1, <2>2, <2>3, PushStep
<1>7. ASSUME CreateResent(h) PROVE Known'
    <2>1. UNCHANGED <<order, key, job, rewrite, late>> /\ Place(job[h].order)
        BY <1>7 DEF CreateResent
    <2>2. OrdersKept /\ NoneMade /\ LinksSame /\ CountsKept
        BY <2>1, <1>1, SameOrders, UnansweredCounts
    <2>3. JobsKept
        BY <1>0, <2>1, <2>2, PushRight
    <2> QED BY <2>1, <2>2, <2>3, PushStep
<1>8. ASSUME Note(h) PROVE Known'
    <2>1. UNCHANGED <<order, key, rewrite, placed, late>>
        BY <1>8 DEF Note, shopify
    <2> DEFINE m == [order[job[h].order].meta EXCEPT !.uncertain = @ \/ At(h, "unanswered")]
    <2>2. job' = [job EXCEPT ![h].at = "record", ![h].meta = m]
        BY <1>8 DEF Note
    <2> HIDE DEF m
    <2>3. \A g \in Handlers : g # h => job'[g] = job[g]
        BY <2>2, <1>typed DEF TypeOK
    <2>4. /\ job'[h].at = "record" /\ job'[h].order = job[h].order /\ job'[h].key = job[h].key
          /\ job'[h].body = job[h].body /\ job'[h].linked = job[h].linked
        BY <2>2, <1>0, <1>typed DEF TypeOK, Working
    <2>5. Right(job[h])'
        BY <1>1, <2>1, <2>4 DEF Right, Made
    <2>6. JobsKept
        BY <2>3, <2>5 DEF JobsKept
    <2> QED BY <2>1, <2>6, OnlyJobs
<1>9. ASSUME Record(h) PROVE Known'
    <2>1. UNCHANGED <<key, rewrite, placed, late>> /\ Releasing(h, FALSE)
        BY <1>9 DEF Record, shopify
    <2>2. job[h].meta \in Metadata /\ order' = [order EXCEPT ![job[h].order].meta = job[h].meta]
        BY <1>9, <1>0, WorkingTyped DEF Record
    <2>3. OrdersKept /\ NoneMade /\ LinksSame /\ CountsKept
        BY <1>1, <1>typed, <2>1, <2>2, MarkedTyped, MarkedOrders, SameCounts
    <2>4. JobsKept
        BY <1>0, <2>1, <2>3, PushRight
    <2> QED BY <2>1, <2>3, <2>4, PushStep
<1>10. ASSUME Link(h) PROVE Known'
    <2> DEFINE o == job[h].order
               n == IF order[o].linked = 0 THEN job[h].got ELSE order[o].linked
    <2>1. UNCHANGED <<key, rewrite, placed, late>> /\ Releasing(h, TRUE)
        BY <1>10 DEF Link, shopify
    <2>2. n # 0 /\ n <= placed[o] /\ n \in Nat
        <3>1. 1 <= job[h].got /\ job[h].got <= placed[o] /\ job[h].got \in Nat
            BY <1>10, <1>0, <1>1, WorkingTyped DEF Link, At, Right
        <3>2. order[o].linked <= placed[o] /\ order[o].linked \in Nat
            BY <1>1 DEF Known, LinksExist, Order
        <3> QED BY <3>1, <3>2
    <2>3. order' = [order EXCEPT ![o] = [order[o] EXCEPT !.linked = n]]
        BY <1>10, <1>typed, <1>1 DEF Link, TypeOK
    <2> HIDE DEF n
    <2>4. /\ order'[o].key = order[o].key /\ order'[o].body = order[o].body /\ order'[o].linked = n
          /\ order'[o] \in Order
        BY <2>2, <2>3, <1>1, <1>typed DEF TypeOK, Order
    <2>5. order'[o] # Unused /\ \A p \in Orders : p # o => order'[p] = order[p]
        BY <2>3, <2>4, <1>1, <1>typed, RowKinds DEF TypeOK
    <2>6. OrdersKept /\ NoneMade /\ CountsKept
        BY <1>1, <2>1, <2>2, <2>4, <2>5, SameCounts DEF OrdersKept, NoneMade, Made
    <2>7. LinksKept
        BY <1>1, <2>1, <2>2, <2>4, <2>5 DEF LinksKept, Known, LinksExist
    <2>8. KeysKept
        BY <2>1, <2>6, SameKeys
    <2>9. JobsKept
        BY <1>0, <2>1, <2>2, <2>4, <2>6, PushRight
    <2>10. RewritesKept
        BY <2>1, <1>typed DEF Known, TypeOK, Rewriting, RewritesKnow, RewritesKept
    <2> QED BY <2>6, <2>7, <2>8, <2>9, <2>10, KnownStays
<1>11. ASSUME WriteFails(h) PROVE Known'
    <2>1. UNCHANGED <<order, key, rewrite, placed, late>> /\ Goto(h, "throw")
        BY <1>11 DEF WriteFails
    <2>2. OrdersKept /\ CountsKept
        BY <2>1, SameOrders, SameCounts
    <2>3. JobsKept
        BY <1>0, <2>1, <2>2, PushRight DEF Pushing
    <2> QED BY <2>1, <2>3, OnlyJobs
<1>12. ASSUME Release(h) PROVE Known'
    <2>1. UNCHANGED <<key, rewrite, placed, late>>
        BY <1>12 DEF Release, shopify
    <2>2. OrdersKept /\ NoneMade /\ LinksSame /\ CountsKept
        BY <1>12, <1>1, <1>typed, <2>1, ClaimMarked, MarkedOrders, SameCounts DEF Release
    <2>3. job[h].linked \in BOOLEAN /\ (job[h].linked => order'[job[h].order].linked # 0)
        BY <1>0, <1>1, <2>2, WorkingTyped DEF Right, OrdersKept
    <2>4. JobsKept
        BY <1>0, <1>12, <2>2, <2>3, PushRight DEF Release
    <2> QED BY <2>1, <2>2, <2>4, PushStep
<1> QED BY <1>2, <1>3, <1>4, <1>5, <1>6, <1>7, <1>8, <1>9, <1>10, <1>11, <1>12

LEMMA EnvironmentKnown ==
    ASSUME Known, TypeOK',
           \/ \E h \in Handlers : Stop(h)
           \/ \E c \in Writers : MetadataWrite(c) \/ \E o \in Orders : MetadataRead(c, o)
           \/ \E o \in Orders : LateCreate(o) \/ LeaseEnds(o)
    PROVE  Known'
<1>typed. TypeOK
    BY DEF Known
<1>1. ASSUME NEW h \in Handlers, Stop(h) PROVE Known'
    <2>1. UNCHANGED <<order, key, rewrite>> /\ End(h)
        BY <1>1 DEF Stop
    <2>2. CountsKept
        <3>1. CASE At(h, "create")
            <4>1. job[h] \in Working
                BY <3>1, <1>typed, JobKinds DEF At
            <4> QED BY <1>1, <3>1, <4>1, WorkKnown, UnansweredCounts DEF Stop
        <3>2. CASE ~At(h, "create")
            BY <1>1, <3>2, SameCounts DEF Stop
        <3> QED BY <3>1, <3>2
    <2>3. OrdersKept /\ NoneMade /\ LinksSame
        BY <2>1, SameOrders
    <2>4. JobsKept
        <3>1. \A g \in Handlers : g # h => job'[g] = job[g]
            BY <2>1, <1>typed DEF End, TypeOK
        <3>2. job'[h] = Idle
            BY <2>1, <1>typed DEF End, TypeOK
        <3>3. Idle \notin Working
            BY DEF Idle, Working, Pushing
        <3> QED BY <3>1, <3>2, <3>3 DEF JobsKept
    <2> QED BY <2>1, <2>2, <2>3, <2>4, PushStep
<1>2. ASSUME NEW c \in Writers, MetadataWrite(c) PROVE Known'
    <2>1. rewrite[c] \in Rewriting /\ Made(rewrite[c].order)
        BY <1>2, <1>typed DEF MetadataWrite, TypeOK, Known, RewritesKnow
    <2>2. rewrite[c].order \in Orders /\ rewrite[c].meta \in Metadata
        BY <2>1 DEF Rewriting
    <2>3. UNCHANGED <<key, job, placed, late>>
        BY <1>2 DEF MetadataWrite
    <2>4. OrdersKept /\ NoneMade /\ LinksSame /\ CountsKept
        BY <1>2, <1>typed, <2>1, <2>2, <2>3, WriteBackTyped, MarkedOrders, SameCounts DEF MetadataWrite
    <2>5. LinksKept /\ KeysKept
        BY <2>3, <2>4, SameLinks, SameKeys
    <2>6. JobsKept
        BY <2>3 DEF JobsKept
    <2>7. \A d \in Writers : rewrite'[d] # Idle => rewrite'[d] = rewrite[d]
        BY <1>2, <1>typed DEF MetadataWrite, TypeOK
    <2>8. RewritesKept
        BY <2>7, <1>typed DEF Known, TypeOK, Rewriting, RewritesKnow, RewritesKept
    <2> QED BY <2>4, <2>5, <2>6, <2>8, KnownStays
<1>3. ASSUME NEW c \in Writers, NEW o \in Orders, MetadataRead(c, o) PROVE Known'
    <2>1. UNCHANGED <<order, key, job, placed, late>> /\ Made(o)
        BY <1>3 DEF MetadataRead, shopify, Made
    <2>2. OrdersKept /\ NoneMade /\ LinksSame /\ CountsKept
        BY <2>1, SameOrders, SameCounts
    <2>3. LinksKept /\ KeysKept
        BY <2>1, <2>2, SameLinks, SameKeys
    <2>4. JobsKept
        BY <2>1 DEF JobsKept
    <2>5. \A d \in Writers : rewrite'[d] = rewrite[d] \/ rewrite'[d].order = o
        BY <1>3, <1>typed DEF MetadataRead, TypeOK
    <2>6. RewritesKept
        BY <2>1, <2>5, <1>typed DEF Known, TypeOK, Rewriting, RewritesKnow, RewritesKept
    <2> QED BY <2>2, <2>3, <2>4, <2>6, KnownStays
<1>4. ASSUME NEW o \in Orders, LateCreate(o) PROVE Known'
    <2>1. UNCHANGED <<order, key, job, rewrite>>
        BY <1>4 DEF LateCreate
    <2>2. Made(o)
        <3>1. late[o] # 0
            BY <1>4 DEF LateCreate
        <3> QED BY <3>1 DEF Known, NothingUnmade
    <2>3. \A p \in Orders : p # o => late'[p] = late[p]
        BY <1>4, <1>typed DEF LateCreate, TypeOK
    <2>4. placed' = [placed EXCEPT ![o] = @ + 1] \/ UNCHANGED placed
        BY <1>4 DEF LateCreate
    <2>5. OrdersKept /\ NoneMade /\ LinksSame /\ CountsKept
        BY <2>1, <2>2, <2>3, <2>4, SameOrders, MoreCounts
    <2>6. JobsKept
        BY <2>1 DEF JobsKept
    <2> QED BY <2>1, <2>5, <2>6, PushStep
<1>5. ASSUME NEW o \in Orders, LeaseEnds(o) PROVE Known'
    <2>1. UNCHANGED <<key, job, rewrite, placed, late>> /\ Made(o)
        BY <1>5 DEF LeaseEnds, Made
    <2>2. OrdersKept /\ NoneMade /\ LinksSame /\ CountsKept
        BY <1>5, <1>typed, <2>1, ClaimMarked, MarkedOrders, SameCounts DEF LeaseEnds
    <2>3. JobsKept
        BY <2>1 DEF JobsKept
    <2> QED BY <2>1, <2>2, <2>3, PushStep
<1> QED BY <1>1, <1>2, <1>3, <1>4, <1>5

LEMMA KnownInit == Init => Known
<1> SUFFICES ASSUME Init PROVE Known
    OBVIOUS
<1>1. /\ \A o \in Orders : order[o] = Unused /\ placed[o] = 0 /\ late[o] = 0
      /\ \A k \in Keys : key[k] = NoKeyRow
      /\ \A h \in Handlers : job[h] = Idle
      /\ \A c \in Writers : rewrite[c] = Idle
    BY DEF Init
<1>2. Idle \notin Working
    BY DEF Idle, Working, Pushing
<1> QED BY <1>1, <1>2, InitTyped DEF Known, RowsAgree, JobsKnow, RewritesKnow, NothingUnmade, LinksExist, Made

LEMMA KnownNext == Known /\ [Next]_vars => Known'
<1> SUFFICES ASSUME Known, [Next]_vars PROVE Known'
    OBVIOUS
<1>typed. TypeOK'
    BY NextTyped
<1>1. CASE UNCHANGED vars
    <2>1. UNCHANGED <<order, key, job, rewrite, placed, late>>
        BY <1>1 DEF vars
    <2>2. JobsKept
        BY <2>1 DEF JobsKept
    <2> QED BY <1>typed, <2>1, <2>2, OnlyJobs
<1> QED BY <1>typed, <1>1, SubmissionKnown, NotifyKnown, PushKnown, EnvironmentKnown DEF Next, Step

LEMMA KnownAlways == Spec => []Known
BY KnownInit, KnownNext, PTL DEF Spec

\* Rows, handlers and counts have the shapes TypeOK gives them in every reachable state.
THEOREM TypeCorrect == Spec => []TypeOK
<1>1. Known => TypeOK
    BY DEF Known
<1> QED BY <1>1, KnownAlways, PTL

\* No two orders are made for one key, whatever requests interleave and whatever fails.
THEOREM OneOrderForAKey == Spec => []OneOrderPerKey
<1>1. Known => OneOrderPerKey
    BY DEF Known, RowsAgree, OneOrderPerKey
<1> QED BY <1>1, KnownAlways, PTL

\* A handler works on an order made for exactly what its request asks for.
THEOREM OrdersOwned == Spec => []OwnOrder
<1>1. Known => OwnOrder
    BY DEF Known, JobsKnow, Right, OwnOrder
<1> QED BY <1>1, KnownAlways, PTL

\* What is recorded as linked is linked, and to a Shopify order that exists.
THEOREM LinksReal == Spec => []LinksExist
<1>1. Known => LinksExist
    BY DEF Known
<1> QED BY <1>1, KnownAlways, PTL

--------------------------------------------------------------------------------
(* One push at a time, and none that forgets *)

\* A handler that pushes is at work, on an order that was made.
LEMMA Pushers ==
    ASSUME Known, NEW h \in Handlers, job[h].at \in Pushing
    PROVE  job[h] \in Working /\ job[h].order \in Orders /\ Made(job[h].order)
<1>1. job[h].at \notin {"idle", "find", "insert"}
    BY DEF Pushing
<1>2. job[h] \in Working
    BY <1>1, JobKinds DEF Known
<1> QED BY <1>2, WorkKnown

\* The push of an order that a step leaves alone.
LEMMA Elsewhere ==
    ASSUME Inv, NEW p \in Orders, order'[p] = order[p], placed'[p] = placed[p], hit \subseteq hit',
           \A g \in Handlers : job'[g] = job[g] \/ (~Pushes(g, p) /\ ~Pushes(g, p)'),
           Made(p)', p \notin hit'
    PROVE  Safe(p)'
<1>1. Safe(p)
    BY DEF Inv, PushesSafe, Made
<1>2. \A g \in Handlers : Pushes(g, p) <=> Pushes(g, p)'
    BY DEF Pushes
<1>3. \A g \in Handlers : Pushes(g, p) => job'[g] = job[g]
    BY DEF Pushes
<1>4. placed'[p] <= 1 /\ \A g, h \in Handlers : Pushes(g, p)' /\ Pushes(h, p)' => g = h
    BY <1>1, <1>2 DEF Safe
<1>5. \A h \in Handlers : Pushes(h, p)' => Sound(job[h], placed[p], order[p])'
    <2> SUFFICES ASSUME NEW h \in Handlers, Pushes(h, p)' PROVE Sound(job[h], placed[p], order[p])'
        OBVIOUS
    <2>1. job'[h] = job[h] /\ Sound(job[h], placed[p], order[p])
        BY <1>1, <1>2, <1>3 DEF Safe
    <2> QED BY <2>1 DEF Sound
<1>6. (\A h \in Handlers : ~Pushes(h, p)') => Remembered(placed[p], order[p])'
    <2> SUFFICES ASSUME \A h \in Handlers : ~Pushes(h, p)' PROVE Remembered(placed[p], order[p])'
        OBVIOUS
    <2>1. Remembered(placed[p], order[p])
        BY <1>1, <1>2 DEF Safe
    <2> QED BY <2>1 DEF Remembered
<1> QED BY <1>4, <1>5, <1>6 DEF Safe

\* The push of order o by handler h goes on.
LEMMA GoesOn ==
    ASSUME Inv, NEW o \in Orders, NEW h \in Handlers, Made(o), o \notin hit, Pushes(h, o), Pushes(h, o)',
           \A g \in Handlers : g # h => job'[g] = job[g],
           placed'[o] <= 1, Sound(job[h], placed[o], order[o])'
    PROVE  Safe(o)'
<1>1. Safe(o)
    BY DEF Inv, PushesSafe
<1>2. \A g \in Handlers : g # h => ~Pushes(g, o)
    BY <1>1 DEF Safe
<1>3. \A g \in Handlers : g # h => ~Pushes(g, o)'
    BY <1>2 DEF Pushes
<1> QED BY <1>3 DEF Safe

\* The push of order o by handler h is over.
LEMMA Leaves ==
    ASSUME Inv, NEW o \in Orders, NEW h \in Handlers, Made(o), o \notin hit, Pushes(h, o), ~Pushes(h, o)',
           \A g \in Handlers : g # h => job'[g] = job[g],
           placed'[o] <= 1, Remembered(placed[o], order[o])'
    PROVE  Safe(o)'
<1>1. Safe(o)
    BY DEF Inv, PushesSafe
<1>2. \A g \in Handlers : g # h => ~Pushes(g, o)
    BY <1>1 DEF Safe
<1>3. \A g \in Handlers : ~Pushes(g, o)'
    BY <1>2 DEF Pushes
<1> QED BY <1>3 DEF Safe

\* A step of handler h on its order o.
LEMMA OnlyHere ==
    ASSUME Inv, NEW o \in Orders, NEW h \in Handlers,
           Pushes(h, o) \/ job[h].at \notin Pushing,
           job'[h].at \in Pushing => Pushes(h, o)',
           \A g \in Handlers : g # h => job'[g] = job[g],
           \A p \in Orders : p # o => order'[p] = order[p] /\ placed'[p] = placed[p],
           hit \subseteq hit',
           Made(o)' /\ o \notin hit' => Safe(o)'
    PROVE  PushesSafe'
<1> SUFFICES ASSUME NEW p \in Orders, Made(p)', p \notin hit' PROVE Safe(p)'
    BY DEF PushesSafe
<1>1. CASE p = o
    BY <1>1
<1>2. CASE p # o
    <2>1. ~Pushes(h, p) /\ ~Pushes(h, p)'
        BY <1>2 DEF Pushes
    <2> QED BY <1>2, <2>1, Elsewhere
<1> QED BY <1>1, <1>2

\* A step of a handler that does not push.
LEMMA NotPushed ==
    ASSUME Inv, NEW h \in Handlers, job[h].at \notin Pushing, job'[h].at \notin Pushing,
           \A g \in Handlers : g # h => job'[g] = job[g],
           UNCHANGED <<order, placed, hit>>
    PROVE  PushesSafe'
<1> SUFFICES ASSUME NEW p \in Orders, Made(p)', p \notin hit' PROVE Safe(p)'
    BY DEF PushesSafe
<1>1. ~Pushes(h, p) /\ ~Pushes(h, p)'
    BY DEF Pushes
<1> QED BY <1>1, Elsewhere

LEMMA MakeSafe ==
    ASSUME Inv, NEW h \in Handlers, Insert(h), key[job[h].key] = NoKeyRow
    PROVE  PushesSafe'
<1>typed. Known /\ TypeOK
    BY DEF Inv, Known
<1>1. PICK o \in Orders : Make(h, o)
    BY DEF Insert
<1>2. /\ ~Made(o) /\ UNCHANGED <<placed, hit>>
      /\ \A p \in Orders : p # o => order'[p] = order[p]
      /\ \A g \in Handlers : g # h => job'[g] = job[g]
    BY <1>1, <1>typed DEF Make, Insert, TypeOK, Made, shopify
<1>3. job[h].at \notin Pushing /\ job'[h].at \notin Pushing
    BY <1>1, <1>typed DEF Insert, At, Make, Work, TypeOK, Pushing
<1>4. placed'[o] = 0
    BY <1>2, <1>typed DEF Known, NothingUnmade
<1>5. \A g \in Handlers : ~Pushes(g, o)'
    <2>1. \A g \in Handlers : ~Pushes(g, o)
        BY <1>2, <1>typed, Pushers DEF Pushes
    <2> QED BY <1>2, <1>3, <2>1 DEF Pushes
<1>6. Safe(o)'
    BY <1>4, <1>5 DEF Safe, Remembered
<1> QED BY <1>2, <1>3, <1>6, OnlyHere

LEMMA SubmissionSafe ==
    ASSUME Inv, NEW h \in Handlers,
           \/ \E k \in Keys, b \in Bodies : Submit(h, k, b)
           \/ Find(h) \/ Insert(h) \/ Wait(h) \/ Complete(h) \/ Answer(h) \/ Store(h)
           \/ \E o \in Orders : RetryPush(h, o)
    PROVE  PushesSafe'
<1>typed. Known /\ TypeOK
    BY DEF Inv, Known
<1>1. CASE Insert(h) /\ key[job[h].key] = NoKeyRow
    BY <1>1, MakeSafe
<1>2. CASE ~(Insert(h) /\ key[job[h].key] = NoKeyRow)
    <2>1. UNCHANGED <<order, placed, hit>>
        BY <1>2 DEF Submit, Find, Insert, Wait, Complete, Answer, Store, RetryPush, shopify
    <2>2. \A g \in Handlers : g # h => job'[g] = job[g]
        BY <1>2, <1>typed DEF Submit, Find, Insert, Wait, Complete, Answer, Store, RetryPush, Goto, End, TypeOK
    <2>3. job[h].at \notin Pushing
        BY <1>typed, JobKinds DEF Submit, Find, Insert, Wait, Complete, Answer, Store, RetryPush, At, Pushing
    <2>4. job'[h].at \notin Pushing
        <3>1. job[h] \in {Idle} \cup Asking \cup Working
            BY <1>typed, JobKinds
        <3>2. \A w \in {Idle} \cup Asking \cup Working : \A p : [w EXCEPT !.at = p].at = p
            BY DEF Idle, Asking, Working
        <3>3. \A p : Goto(h, p) => job'[h].at = p
            BY <1>typed, <3>1, <3>2 DEF Goto, TypeOK
        <3>4. End(h) => job'[h].at = "idle"
            BY <1>typed DEF End, Idle, TypeOK
        <3>5. ASSUME NEW k, NEW b, NEW o, NEW why, NEW p, job' = [job EXCEPT ![h] = Work(p, why, k, b, o)]
              PROVE  job'[h].at = p
            BY <1>typed, <3>5 DEF Work, TypeOK
        <3>6. ASSUME NEW k \in Keys, NEW b \in Bodies, Submit(h, k, b) PROVE job'[h].at = "find"
            BY <1>typed, <3>6 DEF Submit, TypeOK
        <3>7. Find(h) => job'[h].at \in {"insert", "idle", "wait"}
            BY <3>3, <3>4, <3>5 DEF Find
        <3>8. Insert(h) => job'[h].at = "find"
            BY <1>2, <3>3 DEF Insert
        <3>9. Wait(h) => job'[h].at \in {"answer", "look"}
            BY <3>3 DEF Wait
        <3>10. Complete(h) => job'[h].at \in {"idle", "answer"}
            BY <3>3, <3>4 DEF Complete
        <3>11. Answer(h) => job'[h].at \in {"look", "idle"}
            BY <3>4, <3>5 DEF Answer
        <3>12. Store(h) => job'[h].at = "idle"
            BY <3>4 DEF Store
        <3>13. ASSUME NEW o \in Orders, RetryPush(h, o) PROVE job'[h].at = "look"
            BY <3>5, <3>13 DEF RetryPush
        <3> QED BY <3>6, <3>7, <3>8, <3>9, <3>10, <3>11, <3>12, <3>13 DEF Pushing
    <2> QED BY <2>1, <2>2, <2>3, <2>4, NotPushed
<1> QED BY <1>1, <1>2

\* The jobs that the steps of a push leave.
LEMMA PushMoves ==
    ASSUME TypeOK, NEW h \in Handlers, job[h] \in Working
    PROVE  /\ \A p : Goto(h, p) =>
                /\ job'[h].at = p /\ job'[h].order = job[h].order /\ job'[h].meta = job[h].meta
                /\ \A g \in Handlers : g # h => job'[g] = job[g]
           /\ \A l : Releasing(h, l) =>
                /\ job'[h].at = "release" /\ job'[h].order = job[h].order
                /\ \A g \in Handlers : g # h => job'[g] = job[g]
           /\ \A l : Pushed(h, l) \/ End(h) =>
                /\ job'[h].at \notin Pushing
                /\ \A g \in Handlers : g # h => job'[g] = job[g]
<1>1. ASSUME NEW p, Goto(h, p)
      PROVE  /\ job'[h].at = p /\ job'[h].order = job[h].order /\ job'[h].meta = job[h].meta
             /\ \A g \in Handlers : g # h => job'[g] = job[g]
    BY <1>1 DEF Goto, TypeOK, Working
<1>2. ASSUME NEW l, Releasing(h, l)
      PROVE  /\ job'[h].at = "release" /\ job'[h].order = job[h].order
             /\ \A g \in Handlers : g # h => job'[g] = job[g]
    BY <1>2 DEF Releasing, TypeOK, Working
<1>3. ASSUME NEW l, Pushed(h, l)
      PROVE  job'[h].at \notin Pushing /\ \A g \in Handlers : g # h => job'[g] = job[g]
    <2> DEFINE p == Onward[job[h].why]
               w == [Work(p, job[h].why, job[h].key, job[h].body, job[h].order) EXCEPT !.linked = l]
    <2>1. job'[h] = (IF job[h].why = "retry" THEN Idle ELSE w) /\ \A g \in Handlers : g # h => job'[g] = job[g]
        BY <1>3 DEF Pushed, TypeOK
    <2>2. w.at = p /\ Idle.at = "idle"
        BY DEF Work, Idle
    <2>p. job[h].why # "retry" => p \in {"notify", "complete", "store"}
        BY WorkingTyped, OnwardPhases
    <2> HIDE DEF p, w
    <2>3. job'[h].at \in {"notify", "store", "complete", "idle"}
        BY <2>1, <2>2, <2>p
    <2> QED BY <2>1, <2>3 DEF Pushing
<1>4. ASSUME End(h)
      PROVE  job'[h].at \notin Pushing /\ \A g \in Handlers : g # h => job'[g] = job[g]
    BY <1>4 DEF End, TypeOK, Idle, Pushing
<1> QED BY <1>1, <1>2, <1>3, <1>4

\* The claim: whoever had it is gone, or never came as far.
LEMMA ClaimSafe ==
    ASSUME Inv, NEW h \in Handlers, Claim(h)
    PROVE  PushesSafe'
<1>typed. Known /\ TypeOK
    BY DEF Inv, Known
<1>0. job[h] \in Working /\ job[h].at \notin Pushing
    BY <1>typed, JobKinds DEF Claim, At, Pushing
<1>o. PICK o \in Orders : o = job[h].order
    BY <1>0, <1>typed, WorkKnown
<1> USE <1>o
<1>1. Made(o) /\ order[o] \in Order /\ order[o].meta \in Metadata
    BY <1>0, <1>typed, WorkKnown DEF Order
<1>2. UNCHANGED <<placed, hit>>
    BY DEF Claim, shopify
<1>3. CASE ~Claimable(o)
    <2> DEFINE l == order[o].linked # 0
    <2>1. Pushed(h, l) /\ UNCHANGED order
        BY <1>3 DEF Claim
    <2>2. job'[h].at \notin Pushing /\ \A g \in Handlers : g # h => job'[g] = job[g]
        BY <1>0, <1>typed, <2>1, PushMoves
    <2> QED BY <1>0, <1>2, <2>1, <2>2, NotPushed
<1>4. CASE Claimable(o)
    <2> DEFINE m == Claimed(order[o].meta)
    <2>1. order' = [order EXCEPT ![o].meta = m] /\ Goto(h, "read")
        BY <1>4, <1>1, <1>typed DEF Claim, TypeOK
    <2>2. /\ m \in Metadata /\ m.claim = "live"
          /\ m.uncertain <=> order[o].meta.uncertain \/ order[o].meta.claim = "over"
        BY <1>1 DEF Claimed, Metadata
    <2> HIDE DEF m
    <2>3. Marked(o, m)
        BY <1>1, <1>typed, <2>1, <2>2, MarkedTyped
    <2>4. order'[o].meta = m /\ order'[o].linked = order[o].linked
        BY <1>1, <2>3 DEF Marked, Order
    <2>5. /\ job'[h].at = "read" /\ job'[h].order = o
          /\ \A g \in Handlers : g # h => job'[g] = job[g]
        BY <1>0, <1>typed, <2>1, PushMoves
    <2>6. ASSUME Made(o)', o \notin hit' PROVE Safe(o)'
        <3>1. Safe(o)
            BY <1>1, <1>2, <2>6 DEF Inv, PushesSafe
        <3>2. \A g \in Handlers : ~Pushes(g, o)
            BY <1>4, <3>1 DEF Safe, Sound, Claimable
        <3>3. \A g \in Handlers : g # h => ~Pushes(g, o)'
            BY <2>5, <3>2 DEF Pushes
        <3>4. Remembered(placed[o], order[o])
            BY <3>1, <3>2 DEF Safe
        <3>5. placed[o] > 0 => m.uncertain
            <4>1. order[o].linked = 0 /\ order[o].meta.claim \in {"none", "over"}
                BY <1>1, <1>4 DEF Claimable, Metadata
            <4>2. placed[o] > 0 => order[o].meta.uncertain \/ order[o].meta.claim = "over"
                BY <3>4, <4>1 DEF Remembered
            <4> QED BY <2>2, <4>2
        <3>6. placed[o] = 0 \/ m.uncertain
            <4>1. placed[o] \in Nat
                BY <1>1, <1>typed DEF TypeOK
            <4>2. placed[o] = 0 \/ placed[o] > 0
                BY <4>1
            <4> QED BY <3>5, <4>2
        <3>7. Sound(job[h], placed[o], order[o])'
            BY <1>2, <2>2, <2>4, <2>5, <3>6 DEF Sound
        <3>8. Pushes(h, o)'
            BY <2>5 DEF Pushes, Pushing
        <3>9. placed'[o] <= 1
            BY <1>2, <3>1 DEF Safe
        <3> QED BY <3>3, <3>7, <3>8, <3>9 DEF Safe
    <2>7. Pushes(h, o)'
        BY <2>5 DEF Pushes, Pushing
    <2> QED BY <1>0, <1>1, <1>2, <2>3, <2>5, <2>6, <2>7, OnlyHere DEF Marked
<1> QED BY <1>3, <1>4

\* A push that has its claim: every step keeps what the next one relies on.
LEMMA PushSafe ==
    ASSUME Inv, Known', NEW h \in Handlers,
           \/ Look(h) \/ Read(h) \/ Lookup(h)
           \/ CreateAnswered(h) \/ CreateRefused(h) \/ CreateUnanswered(h) \/ CreateResent(h)
           \/ Note(h) \/ Record(h) \/ Link(h) \/ WriteFails(h) \/ Release(h)
    PROVE  PushesSafe'
<1>typed. Known /\ TypeOK /\ TypeOK'
    BY DEF Inv, Known
<1>0. job[h] \in Working
    BY <1>typed, JobKinds DEF Look, Read, Lookup, CreateAnswered, CreateRefused, CreateUnanswered,
          CreateResent, Note, Record, Link, WriteFails, Release, At
<1>o. PICK o \in Orders : o = job[h].order
    BY <1>0, <1>typed, WorkKnown
<1> USE <1>o
<1>1. Made(o) /\ order[o] \in Order /\ order[o].meta \in Metadata
    BY <1>0, <1>typed, WorkKnown DEF Order
<1>2. ASSUME Look(h) PROVE PushesSafe'
    <2>1. job'[h].at \notin Pushing /\ \A g \in Handlers : g # h => job'[g] = job[g]
        <3>1. Pushed(h, TRUE) \/ Goto(h, "claim")
            BY <1>2 DEF Look
        <3>2. "claim" \notin Pushing
            BY DEF Pushing
        <3> QED BY <1>0, <1>typed, <3>1, <3>2, PushMoves
    <2>2. job[h].at \notin Pushing
        BY <1>2 DEF Look, At, Pushing
    <2> QED BY <1>2, <2>1, <2>2, NotPushed DEF Look, shopify
<1>3. ASSUME ~Look(h) PROVE Pushes(h, o)
    BY <1>3 DEF Pushes, Pushing, At, Look, Read, Lookup, CreateAnswered, CreateRefused, CreateUnanswered,
          CreateResent, Note, Record, Link, WriteFails, Release
<1>4. ASSUME o \notin hit, Pushes(h, o) PROVE placed[o] <= 1 /\ Sound(job[h], placed[o], order[o]) /\ Safe(o)
    BY <1>1, <1>4 DEF Inv, PushesSafe, Safe
<1>5. ASSUME Read(h) \/ CreateRefused(h) PROVE PushesSafe'
    <2>1. UNCHANGED <<order, placed, hit>>
        BY <1>5 DEF Read, CreateRefused, shopify
    <2>2. /\ job'[h].at \in {"release", "lookup", "create", "throw", "refused"} /\ job'[h].order = o
          /\ \A g \in Handlers : g # h => job'[g] = job[g]
        BY <1>0, <1>5, <1>typed, PushMoves DEF Read, CreateRefused
    <2>3. Pushes(h, o) /\ Pushes(h, o)'
        BY <1>3, <1>5, <2>2 DEF Pushes, Pushing, Read, CreateRefused, At
    <2>4. ASSUME o \notin hit' PROVE Safe(o)'
        <3>1. placed[o] <= 1 /\ Sound(job[h], placed[o], order[o])
            BY <1>4, <2>1, <2>3, <2>4
        <3>2. Sound(job[h], placed[o], order[o])'
            <4>1. CASE Read(h)
                <5>1. job[h].at = "read"
                    BY <4>1 DEF Read, At
                <5>2. \/ order[o].linked # 0 /\ job'[h].at = "release"
                      \/ order[o].linked = 0 /\ order[o].meta.uncertain /\ job'[h].at = "lookup"
                      \/ order[o].linked = 0 /\ ~order[o].meta.uncertain /\ job'[h].at = "create"
                      \/ order[o].linked = 0 /\ job'[h].at \in {"release", "throw"}
                    <6>1. order[o].meta.uncertain \in BOOLEAN
                        BY <1>1 DEF Metadata
                    <6> QED BY <1>0, <1>typed, <4>1, <6>1, PushMoves DEF Read
                <5> QED BY <2>1, <3>1, <5>1, <5>2 DEF Sound
            <4>2. CASE CreateRefused(h)
                <5>1. job[h].at = "create" /\ job'[h].at \in {"release", "refused"}
                    BY <1>0, <1>typed, <4>2, PushMoves DEF CreateRefused, At
                <5> QED BY <2>1, <3>1, <5>1 DEF Sound
            <4> QED BY <1>5, <4>1, <4>2
        <3> QED BY <1>1, <2>1, <2>2, <2>3, <2>4, <3>1, <3>2, GoesOn
    <2> QED BY <1>1, <2>1, <2>2, <2>3, <2>4, OnlyHere
<1>6. ASSUME Lookup(h) PROVE PushesSafe'
    <2>1. UNCHANGED <<order, placed, hit>> /\ job[h].at = "lookup"
        BY <1>6 DEF Lookup, shopify, At
    <2>2. /\ job'[h].order = o
          /\ \A g \in Handlers : g # h => job'[g] = job[g]
          /\ \/ placed[o] = 0 /\ job'[h].at = "create"
             \/ placed[o] = 1 /\ job'[h].at = "link"
             \/ job'[h].at \in {"release", "unanswered"}
        <3>1. CASE placed[o] = 1 /\ job' = [job EXCEPT ![h].at = "link", ![h].got = 1]
            BY <1>0, <1>typed, <3>1 DEF TypeOK, Working
        <3>2. CASE \/ placed[o] = 0 /\ Goto(h, "create")
                   \/ Goto(h, "unanswered") \/ Releasing(h, FALSE)
            BY <1>0, <1>typed, <3>2, PushMoves
        <3> QED BY <1>6, <3>1, <3>2 DEF Lookup
    <2>3. Pushes(h, o) /\ Pushes(h, o)'
        BY <2>1, <2>2 DEF Pushes, Pushing
    <2>4. ASSUME o \notin hit' PROVE Safe(o)'
        <3>1. placed[o] <= 1 /\ Sound(job[h], placed[o], order[o])
            BY <1>4, <2>1, <2>3, <2>4
        <3>2. Sound(job[h], placed[o], order[o])'
            BY <2>1, <2>2, <3>1 DEF Sound
        <3> QED BY <1>1, <2>1, <2>2, <2>3, <2>4, <3>1, <3>2, GoesOn
    <2> QED BY <1>1, <2>1, <2>2, <2>3, <2>4, OnlyHere
<1>7. ASSUME CreateAnswered(h) \/ CreateUnanswered(h) PROVE PushesSafe'
    <2>1. UNCHANGED <<order, hit>> /\ job[h].at = "create"
        BY <1>7 DEF CreateAnswered, CreateUnanswered, At
    <2>2. \A p \in Orders : p # o => placed'[p] = placed[p]
        BY <1>7, <1>1, <1>typed DEF CreateAnswered, CreateUnanswered, Unanswered, Place, TypeOK
    <2>3. placed'[o] = placed[o] \/ placed'[o] = placed[o] + 1
        BY <1>7, <1>1, <1>typed DEF CreateAnswered, CreateUnanswered, Unanswered, Place, TypeOK
    <2>4. /\ job'[h].order = o
          /\ \A g \in Handlers : g # h => job'[g] = job[g]
          /\ \/ placed'[o] = placed[o] + 1 /\ job'[h].at = "link"
             \/ job'[h].at = "unanswered"
        <3>1. CASE CreateAnswered(h)
            <4> DEFINE n == placed'[o]
            <4>1. job' = [job EXCEPT ![h].at = "link", ![h].got = n]
                BY <3>1 DEF CreateAnswered
            <4>2. placed'[o] = placed[o] + 1
                BY <3>1, <1>1, <1>typed DEF CreateAnswered, Place, TypeOK
            <4> HIDE DEF n
            <4> QED BY <1>0, <1>typed, <4>1, <4>2 DEF TypeOK, Working
        <3>2. CASE CreateUnanswered(h)
            BY <1>0, <1>typed, <3>2, PushMoves DEF CreateUnanswered
        <3> QED BY <1>7, <3>1, <3>2
    <2>5. Pushes(h, o) /\ Pushes(h, o)'
        BY <2>1, <2>4 DEF Pushes, Pushing
    <2>6. ASSUME o \notin hit' PROVE Safe(o)'
        <3>1. placed[o] <= 1 /\ Sound(job[h], placed[o], order[o])
            BY <1>4, <2>1, <2>5, <2>6
        <3>2. placed[o] = 0 /\ order[o].linked = 0 /\ order[o].meta.claim = "live"
            BY <2>1, <3>1 DEF Sound
        <3>3. placed'[o] <= 1
            BY <2>3, <3>2
        <3>4. \/ placed'[o] = 1 /\ job'[h].at = "link"
              \/ job'[h].at = "unanswered"
            BY <2>4, <3>2
        <3>5. Sound(job[h], placed[o], order[o])'
            BY <2>1, <3>2, <3>4 DEF Sound
        <3> QED BY <1>1, <2>1, <2>4, <2>5, <2>6, <3>3, <3>5, GoesOn
    <2> QED BY <1>1, <2>1, <2>2, <2>4, <2>5, <2>6, OnlyHere
<1>8. ASSUME CreateResent(h) \/ WriteFails(h) PROVE PushesSafe'
    <2>1. /\ UNCHANGED order /\ hit' = hit \cup {o}
          /\ \A p \in Orders : p # o => placed'[p] = placed[p]
        BY <1>8, <1>1, <1>typed DEF CreateResent, WriteFails, Place, Hit, TypeOK
    <2>2. \A g \in Handlers : g # h => job'[g] = job[g]
        BY <1>0, <1>8, <1>typed, PushMoves DEF CreateResent, WriteFails
    <2>3. Pushes(h, o)
        BY <1>3, <1>8 DEF Pushes, Pushing, CreateResent, WriteFails, At
    <2>4. Pushes(h, o)'
        <3>1. CASE CreateResent(h)
            BY <2>3, <3>1 DEF CreateResent, Pushes
        <3>2. CASE WriteFails(h)
            <4>1. job'[h].at = "throw" /\ job'[h].order = o
                BY <1>0, <1>typed, <3>2, PushMoves DEF WriteFails
            <4> QED BY <4>1 DEF Pushes, Pushing
        <3> QED BY <1>8, <3>1, <3>2
    <2> QED BY <1>1, <2>1, <2>2, <2>3, <2>4, OnlyHere
<1>9. ASSUME Note(h) PROVE PushesSafe'
    <2>1. UNCHANGED <<order, placed, hit>> /\ job[h].at \in {"unanswered", "refused"}
        BY <1>9 DEF Note, shopify
    <2> DEFINE m == [order[o].meta EXCEPT !.uncertain = @ \/ At(h, "unanswered")]
    <2>2. job' = [job EXCEPT ![h].at = "record", ![h].meta = m]
        BY <1>9 DEF Note
    <2>3. m.claim = order[o].meta.claim /\ (job[h].at = "unanswered" => m.uncertain)
        BY <1>1 DEF Metadata, At
    <2> HIDE DEF m
    <2>4. /\ job'[h].at = "record" /\ job'[h].order = o /\ job'[h].meta = m
          /\ \A g \in Handlers : g # h => job'[g] = job[g]
        BY <1>0, <1>typed, <2>2 DEF TypeOK, Working
    <2>5. Pushes(h, o) /\ Pushes(h, o)'
        BY <2>1, <2>4 DEF Pushes, Pushing
    <2>6. ASSUME o \notin hit' PROVE Safe(o)'
        <3>1. placed[o] <= 1 /\ Sound(job[h], placed[o], order[o])
            BY <1>4, <2>1, <2>5, <2>6
        <3>2. Sound(job[h], placed[o], order[o])'
            BY <2>1, <2>3, <2>4, <3>1 DEF Sound
        <3> QED BY <1>1, <2>1, <2>4, <2>5, <2>6, <3>1, <3>2, GoesOn
    <2> QED BY <1>1, <2>1, <2>4, <2>5, <2>6, OnlyHere
<1>10. ASSUME Record(h) PROVE PushesSafe'
    <2>1. UNCHANGED <<placed, hit>> /\ job[h].at = "record"
        BY <1>10 DEF Record, shopify, At
    <2>2. Marked(o, job[h].meta)
        BY <1>10, <1>0, <1>1, <1>typed, MarkedTyped, WorkingTyped DEF Record
    <2>3. order'[o].meta = job[h].meta /\ order'[o].linked = order[o].linked
        BY <1>1, <2>2 DEF Marked, Order
    <2>4. /\ job'[h].at = "release" /\ job'[h].order = o
          /\ \A g \in Handlers : g # h => job'[g] = job[g]
        BY <1>0, <1>10, <1>typed, PushMoves DEF Record
    <2>5. Pushes(h, o) /\ Pushes(h, o)'
        BY <2>1, <2>4 DEF Pushes, Pushing
    <2>6. ASSUME o \notin hit' PROVE Safe(o)'
        <3>1. placed[o] <= 1 /\ Sound(job[h], placed[o], order[o])
            BY <1>4, <2>1, <2>5, <2>6
        <3>2. Sound(job[h], placed[o], order[o])'
            BY <2>1, <2>3, <2>4, <3>1 DEF Sound
        <3> QED BY <1>1, <2>1, <2>4, <2>5, <2>6, <3>1, <3>2, GoesOn
    <2> QED BY <1>1, <2>1, <2>2, <2>4, <2>5, <2>6, OnlyHere DEF Marked
<1>11. ASSUME Link(h) PROVE PushesSafe'
    <2>1. UNCHANGED <<placed, hit>> /\ job[h].at = "link"
        BY <1>11 DEF Link, shopify, At
    <2>2. 1 <= job[h].got /\ job[h].got \in Nat
        BY <1>0, <1>typed, <2>1, WorkingTyped DEF Known, JobsKnow, Right
    <2> DEFINE n == IF order[o].linked = 0 THEN job[h].got ELSE order[o].linked
    <2>3. n # 0
        BY <2>2
    <2>4. order' = [order EXCEPT ![o] = [order[o] EXCEPT !.linked = n]]
        BY <1>11, <1>1, <1>typed DEF Link, TypeOK
    <2> HIDE DEF n
    <2>5. /\ order'[o].meta = order[o].meta /\ order'[o].linked # 0
          /\ \A p \in Orders : p # o => order'[p] = order[p]
        BY <1>1, <1>typed, <2>3, <2>4 DEF TypeOK, Order
    <2>6. /\ job'[h].at = "release" /\ job'[h].order = o
          /\ \A g \in Handlers : g # h => job'[g] = job[g]
        BY <1>0, <1>11, <1>typed, PushMoves DEF Link
    <2>7. Pushes(h, o) /\ Pushes(h, o)'
        BY <2>1, <2>6 DEF Pushes, Pushing
    <2>8. ASSUME o \notin hit' PROVE Safe(o)'
        <3>1. placed[o] <= 1 /\ Sound(job[h], placed[o], order[o])
            BY <1>4, <2>1, <2>7, <2>8
        <3>2. Sound(job[h], placed[o], order[o])'
            BY <2>1, <2>5, <2>6, <3>1 DEF Sound
        <3> QED BY <1>1, <2>1, <2>6, <2>7, <2>8, <3>1, <3>2, GoesOn
    <2> QED BY <1>1, <2>1, <2>5, <2>6, <2>7, <2>8, OnlyHere
<1>12. ASSUME Release(h) PROVE PushesSafe'
    <2>1. UNCHANGED <<placed, hit>> /\ job[h].at \in {"release", "throw"}
        BY <1>12 DEF Release, shopify
    <2> DEFINE m == [order[o].meta EXCEPT !.claim = "none"]
    <2>2. Marked(o, m)
        BY <1>12, <1>1, <1>typed, ClaimMarked DEF Release
    <2>3. m.uncertain = order[o].meta.uncertain
        BY <1>1 DEF Metadata
    <2> HIDE DEF m
    <2>4. /\ order'[o].meta.uncertain = order[o].meta.uncertain /\ order'[o].linked = order[o].linked
        BY <1>1, <2>2, <2>3 DEF Marked, Order
    <2>5. job'[h].at \notin Pushing /\ \A g \in Handlers : g # h => job'[g] = job[g]
        BY <1>0, <1>12, <1>typed, PushMoves DEF Release
    <2>6. Pushes(h, o) /\ ~Pushes(h, o)'
        BY <2>1, <2>5 DEF Pushes, Pushing
    <2>7. ASSUME o \notin hit' PROVE Safe(o)'
        <3>1. placed[o] <= 1 /\ Sound(job[h], placed[o], order[o])
            BY <1>4, <2>1, <2>6, <2>7
        <3>2. order[o].linked = 0 => placed[o] = 0 \/ order[o].meta.uncertain
            BY <2>1, <3>1 DEF Sound
        <3>3. order'[o].linked = 0 /\ placed'[o] > 0 => order'[o].meta.uncertain
            <4>1. placed'[o] > 0 => placed[o] # 0
                BY <2>1
            <4> QED BY <2>4, <3>2, <4>1
        <3>4. Remembered(placed[o], order[o])'
            BY <3>3 DEF Remembered
        <3> QED BY <1>1, <2>1, <2>5, <2>6, <2>7, <3>1, <3>4, Leaves
    <2> QED BY <1>1, <2>1, <2>2, <2>5, <2>6, <2>7, OnlyHere DEF Marked
<1> QED BY <1>2, <1>5, <1>6, <1>7, <1>8, <1>9, <1>10, <1>11, <1>12

\* A handler that stops leaves its claim, so that its order is looked for.
LEMMA StopSafe ==
    ASSUME Inv, NEW h \in Handlers, Stop(h)
    PROVE  PushesSafe'
<1>typed. Known /\ TypeOK
    BY DEF Inv, Known
<1>1. UNCHANGED <<order, hit>> /\ End(h)
    BY DEF Stop
<1>2. job'[h].at \notin Pushing /\ \A g \in Handlers : g # h => job'[g] = job[g]
    BY <1>1, <1>typed DEF End, TypeOK, Idle, Pushing
<1>3. CASE job[h].at \notin Pushing
    <2>1. UNCHANGED placed
        BY <1>3 DEF Stop, At, Pushing
    <2> QED BY <1>1, <1>2, <1>3, <2>1, NotPushed
<1>4. CASE job[h].at \in Pushing
    <2>1. job[h] \in Working /\ job[h].order \in Orders /\ Made(job[h].order)
        BY <1>4, <1>typed, Pushers
    <2>2. PICK o \in Orders : o = job[h].order
        BY <2>1
    <2> USE <2>2
    <2>3. Made(o) /\ Pushes(h, o) /\ ~Pushes(h, o)'
        BY <1>2, <1>4, <2>1 DEF Pushes
    <2>4. \/ UNCHANGED placed
          \/ job[h].at = "create" /\ placed' = [placed EXCEPT ![o] = @ + 1]
        BY DEF Stop, At, Unanswered, Place
    <2>5. \A p \in Orders : p # o => placed'[p] = placed[p]
        BY <1>typed, <2>4 DEF TypeOK
    <2>6. ASSUME o \notin hit' PROVE Safe(o)'
        <3>1. placed[o] <= 1 /\ Sound(job[h], placed[o], order[o])
            BY <1>1, <2>3, <2>6 DEF Inv, PushesSafe, Safe
        <3>2. placed'[o] <= 1
            <4>1. CASE UNCHANGED placed
                BY <3>1, <4>1
            <4>2. CASE job[h].at = "create" /\ placed' = [placed EXCEPT ![o] = @ + 1]
                <5>1. placed[o] = 0
                    BY <3>1, <4>2 DEF Sound
                <5> QED BY <1>typed, <4>2, <5>1 DEF TypeOK
            <4> QED BY <2>4, <4>1, <4>2
        <3>3. Remembered(placed[o], order[o])'
            BY <1>1, <3>1 DEF Sound, Remembered
        <3> QED BY <1>1, <1>2, <2>3, <2>6, <3>2, <3>3, Leaves
    <2> QED BY <1>1, <1>2, <2>3, <2>5, <2>6, OnlyHere
<1> QED BY <1>3, <1>4

\* A write of the whole metadata keeps what a push and the next one rely on, or its order is hit.
LEMMA WriteBackSafe ==
    ASSUME Inv, NEW o \in Orders, Made(o), NEW m \in Metadata, WriteBack(o, m), UNCHANGED placed,
           \A g \in Handlers : job'[g] = job[g] \/ (job[g].at \notin Pushing /\ job'[g].at \notin Pushing)
    PROVE  PushesSafe'
<1>typed. Known /\ TypeOK
    BY DEF Inv, Known
<1>1. Marked(o, m) /\ hit \subseteq hit'
    BY <1>typed, WriteBackTyped
<1>2. order[o] \in Order /\ order[o].meta \in Metadata
    BY <1>typed, RowKinds DEF Order
<1>3. order'[o].meta = m /\ order'[o].linked = order[o].linked
    BY <1>1, <1>2 DEF Marked, Order
<1> SUFFICES ASSUME NEW p \in Orders, Made(p)', p \notin hit' PROVE Safe(p)'
    BY DEF PushesSafe
<1>4. \A g \in Handlers : job'[g] = job[g] \/ (~Pushes(g, p) /\ ~Pushes(g, p)')
    BY DEF Pushes
<1>5. CASE p # o
    BY <1>1, <1>4, <1>5, Elsewhere DEF Marked
<1>6. CASE p = o
    <2>1. Safe(o) /\ ~Loses(o, m)
        BY <1>1, <1>6 DEF Inv, PushesSafe, WriteBack, Hit
    <2>2. /\ order[o].meta.uncertain => m.uncertain
          /\ order[o].meta.claim = "live" => m.claim = "live"
          /\ order[o].meta.claim # "none" => m.claim # "none"
        BY <1>2, <2>1 DEF Loses, Metadata
    <2>3. \A g \in Handlers : Pushes(g, o) <=> Pushes(g, o)'
        BY <1>4, <1>6 DEF Pushes
    <2>4. ASSUME NEW g \in Handlers, Pushes(g, o)' PROVE Sound(job[g], placed[o], order[o])'
        <3>1. job'[g] = job[g] /\ Sound(job[g], placed[o], order[o])
            BY <1>4, <1>6, <2>1, <2>3, <2>4 DEF Safe
        <3> QED BY <1>3, <2>2, <3>1 DEF Sound
    <2>5. ASSUME \A g \in Handlers : ~Pushes(g, o)' PROVE Remembered(placed[o], order[o])'
        <3>1. Remembered(placed[o], order[o])
            BY <2>1, <2>3, <2>5 DEF Safe
        <3> QED BY <1>3, <2>2, <3>1 DEF Remembered
    <2> QED BY <1>6, <2>1, <2>3, <2>4, <2>5 DEF Safe
<1> QED BY <1>5, <1>6

LEMMA NotifySafe ==
    ASSUME Inv, NEW h \in Handlers, NotifyRead(h) \/ NotifyWrite(h)
    PROVE  PushesSafe'
<1>typed. Known
    BY DEF Inv
<1>1. /\ job[h].order \in Orders /\ Made(job[h].order) /\ job[h].meta \in Metadata
      /\ job[h].at \notin Pushing /\ job'[h].at \notin Pushing
      /\ \A g \in Handlers : g # h => job'[g] = job[g]
    BY <1>typed, NotifyJobs DEF Pushing
<1>2. UNCHANGED placed
    BY DEF NotifyRead, NotifyWrite, shopify
<1>3. CASE UNCHANGED <<order, hit>>
    BY <1>1, <1>2, <1>3, NotPushed
<1>4. CASE WriteBack(job[h].order, job[h].meta)
    BY <1>1, <1>2, <1>4, WriteBackSafe
<1> QED BY <1>3, <1>4 DEF NotifyRead, NotifyWrite, shopify

\* Order o without a push.
LEMMA EnvironmentSafe ==
    ASSUME Inv,
           \/ \E c \in Writers : MetadataWrite(c) \/ \E o \in Orders : MetadataRead(c, o)
           \/ \E o \in Orders : LateCreate(o) \/ LeaseEnds(o)
    PROVE  PushesSafe'
<1>typed. Known /\ TypeOK
    BY DEF Inv, Known
<1>u. ASSUME UNCHANGED job,
             \A p \in Orders : p \in hit' \/ (order'[p] = order[p] /\ placed'[p] = placed[p]), hit \subseteq hit'
      PROVE  PushesSafe'
    <2> SUFFICES ASSUME NEW p \in Orders, Made(p)', p \notin hit' PROVE Safe(p)'
        BY DEF PushesSafe
    <2> QED BY <1>u, Elsewhere
<1>1. ASSUME NEW c \in Writers, MetadataWrite(c) PROVE PushesSafe'
    <2>1. rewrite[c] \in Rewriting /\ Made(rewrite[c].order)
        BY <1>1, <1>typed DEF MetadataWrite, TypeOK, Known, RewritesKnow
    <2>2. rewrite[c].order \in Orders /\ rewrite[c].meta \in Metadata
        BY <2>1 DEF Rewriting
    <2> QED BY <1>1, <2>1, <2>2, WriteBackSafe DEF MetadataWrite
<1>2. ASSUME NEW c \in Writers, NEW o \in Orders, MetadataRead(c, o) PROVE PushesSafe'
    BY <1>2, <1>u DEF MetadataRead, shopify
<1>3. ASSUME NEW o \in Orders, LateCreate(o) PROVE PushesSafe'
    <2>1. UNCHANGED <<order, job>> /\ hit \subseteq hit'
        BY <1>3 DEF LateCreate, Hit
    <2>2. \A p \in Orders : p \in hit' \/ placed'[p] = placed[p]
        BY <1>3, <1>typed DEF LateCreate, Hit, TypeOK
    <2> QED BY <1>u, <2>1, <2>2
<1>4. ASSUME NEW o \in Orders, LeaseEnds(o) PROVE PushesSafe'
    <2>1. UNCHANGED <<job, placed>> /\ Made(o)
        BY <1>4 DEF LeaseEnds, Made
    <2>2. Marked(o, [order[o].meta EXCEPT !.claim = "over"])
        BY <1>4, <1>typed, <2>1, ClaimMarked DEF LeaseEnds
    <2>3. CASE Held(o)
        <3>1. hit' = hit \cup {o}
            BY <1>4, <2>3 DEF LeaseEnds, Hit
        <3> QED BY <1>u, <2>1, <2>2, <3>1 DEF Marked
    <2>4. CASE ~Held(o)
        <3>1. UNCHANGED hit
            BY <1>4, <2>4 DEF LeaseEnds
        <3>2. \A h \in Handlers : ~Pushes(h, o) /\ ~Pushes(h, o)'
            BY <2>1, <2>4 DEF Held, Pushes
        <3>3. order[o] \in Order /\ order[o].meta \in Metadata
            BY <1>typed, <2>1, RowKinds DEF Order
        <3>4. order'[o].meta.claim = "over"
            BY <2>2, <3>3 DEF Marked, Order, Metadata
        <3>5. ASSUME o \notin hit' PROVE Safe(o)'
            <4>1. placed'[o] <= 1
                BY <2>1, <3>1, <3>5 DEF Inv, PushesSafe, Safe
            <4>2. Remembered(placed[o], order[o])'
                BY <3>4 DEF Remembered
            <4> QED BY <3>2, <4>1, <4>2 DEF Safe
        <3> SUFFICES ASSUME NEW p \in Orders, Made(p)', p \notin hit' PROVE Safe(p)'
            BY DEF PushesSafe
        <3>6. CASE p = o
            BY <3>5, <3>6
        <3>7. CASE p # o
            BY <2>1, <2>2, <3>1, <3>7, Elsewhere DEF Marked
        <3> QED BY <3>6, <3>7
    <2> QED BY <2>3, <2>4
<1> QED BY <1>1, <1>2, <1>3, <1>4

LEMMA InvInit == Init => Inv
<1> SUFFICES ASSUME Init PROVE Inv
    OBVIOUS
<1>1. Known /\ \A o \in Orders : ~Made(o)
    BY KnownInit DEF Init, Made
<1> QED BY <1>1 DEF Inv, PushesSafe

LEMMA InvNext == Inv /\ [Next]_vars => Inv'
<1> SUFFICES ASSUME Inv, [Next]_vars PROVE Inv'
    OBVIOUS
<1>known. Known'
    BY KnownNext DEF Inv
<1>1. CASE UNCHANGED vars
    <2>1. UNCHANGED <<order, job, placed, hit>>
        BY <1>1 DEF vars
    <2>2. PushesSafe'
        <3> SUFFICES ASSUME NEW p \in Orders, Made(p)', p \notin hit' PROVE Safe(p)'
            BY DEF PushesSafe
        <3> QED BY <2>1, Elsewhere
    <2> QED BY <1>known, <2>2 DEF Inv
<1>2. CASE Next
    <2>1. ASSUME NEW h \in Handlers, Step(h) PROVE PushesSafe'
        BY <2>1, <1>known, SubmissionSafe, NotifySafe, ClaimSafe, PushSafe DEF Step
    <2> QED BY <1>2, <1>known, <2>1, StopSafe, SubmissionSafe, EnvironmentSafe DEF Next, Inv
<1> QED BY <1>1, <1>2

LEMMA InvAlways == Spec => []Inv
BY InvInit, InvNext, PTL DEF Spec

\* Unless a mishap or a write of the whole metadata interfered with its push, a Shopify order
\* that may have been created is looked for by the next push.
THEOREM OrphansStayKnown == Spec => []OrphansRemembered
<1>1. Inv => OrphansRemembered
    <2> SUFFICES ASSUME Inv, NEW o \in Orders, Made(o), order[o].linked = 0, placed[o] > 0, o \notin hit, ~Held(o)
                 PROVE  order[o].meta.uncertain \/ order[o].meta.claim # "none"
        BY DEF OrphansRemembered
    <2>1. \A h \in Handlers : ~Pushes(h, o)
        BY DEF Pushes, Held
    <2>2. Remembered(placed[o], order[o])
        BY <2>1 DEF Inv, PushesSafe, Safe
    <2> QED BY <2>2 DEF Remembered
<1> QED BY <1>1, InvAlways, PTL

\* An order gets a second Shopify order only where a mishap hit its push, or a write of the
\* whole metadata (a notification's, a cancellation's, an offer's) lost its mark or claim.
THEOREM SecondOrderHasMishap == Spec => []SecondOrderNeedsMishap
<1>1. Inv => SecondOrderNeedsMishap
    <2> SUFFICES ASSUME Inv, NEW o \in Orders, placed[o] > 1, o \notin hit PROVE FALSE
        BY DEF SecondOrderNeedsMishap
    <2>1. placed[o] \in Nat
        BY DEF Inv, Known, TypeOK
    <2>2. placed[o] # 0
        BY <2>1
    <2>3. Made(o)
        BY <2>2 DEF Inv, Known, NothingUnmade
    <2>4. placed[o] <= 1
        BY <2>3 DEF Inv, PushesSafe, Safe
    <2> QED BY <2>1, <2>4
<1> QED BY <1>1, InvAlways, PTL

================================================================================
