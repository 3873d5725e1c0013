---------------------------- MODULE OrderSubmission ----------------------------
(***************************************************************************)
(* Cash-on-delivery orders entered in the CRM: the browser submits an order *)
(* with a key and sends the same submission again until it is answered; one *)
(* order is made for a key, and one Shopify order for the order.            *)
(*                                                                          *)
(* A handler is a job that passes through the phases between its statements *)
(* and its calls to Shopify.  The push to Shopify is claimed by a mark with *)
(* a time in the order's metadata; a claim older than its lease is taken    *)
(* over, and the order is then looked for in Shopify before it is created.  *)
(* The metadata is also written back as a whole by requests that know       *)
(* nothing of the claim.  What no such order can be told from (its items,   *)
(* its price, Shiprocket, what a notification says) is left out; Shopify    *)
(* sync is on for every order.                                              *)
(***************************************************************************)
EXTENDS Integers

CONSTANTS
    Keys,       \* submission keys of the users' browsers
    Bodies,     \* what is asked for, as the request's hash tells it apart
    Handlers,   \* requests being handled, over all server processes
    Writers,    \* requests under way that write an order's metadata back as a whole
    Mishaps,    \* what may go wrong besides lost answers and processes that stop
    MaxOrders,  \* bound: orders ever made
    MaxPlaced   \* bound: Shopify orders created, or still to arrive, for one of them

ASSUME MishapsAssumption ==
    Mishaps \subseteq {"late create",    \* a create that was given up on reaches Shopify afterwards
                       "executed 50x",   \* Shopify executes a create and answers 502, 503 or 504
                       "failed write",   \* a statement after the call to Shopify fails
                       "outlived lease"} \* a push is under way when the lease of its claim ends
ASSUME BoundsAssumption == MaxOrders \in Nat /\ MaxPlaced \in Nat

Orders == 1..MaxOrders

VARIABLES
    order,  \* the Order rows; an unused row is Unused
    key,    \* the IdempotencyKey rows
    job,    \* what each handler is doing
    rewrite, \* what each of the Writers is going to write back
    placed, \* how many Shopify orders carry the order's number
    late,   \* creates of it that were given up on and may still reach Shopify
    hit     \* (history) orders whose push met a mishap, or whose marks a writer that had read
            \* the metadata before overwrote

vars == <<order, key, job, rewrite, placed, late, hit>>
shopify == <<placed, late, hit>>

--------------------------------------------------------------------------------
(* Rows *)

\* Of Order.metadata: shopifyPushClaimedAt, as it is compared with the lease, and
\* shopifyCreateUncertain.
Metadata == [claim : {"none", "live", "over"}, uncertain : BOOLEAN]
NoMetadata == [claim |-> "none", uncertain |-> FALSE]

\* An order remembers here which submission made it.  linked is externalId: which of
\* the Shopify orders placed for it, 0 if none.
Order == [made : {TRUE}, key : Keys, body : Bodies, linked : Nat, meta : Metadata]
Unused == [made |-> FALSE]

\* shopify is what the row's result says of the push.
KeyRow == [status : {"ORDER_CREATED", "COMPLETED"}, order : Orders, body : Bodies,
           shopify : {"none", "failed", "linked"}]
NoKeyRow == [status |-> "none"]

\* Phases in which a handler holds the claim it took.
Pushing == {"read", "lookup", "create", "unanswered", "refused", "record", "link", "release", "throw"}

\* A handler answers a request, or a user's retry of the push.  why: what it pushes for;
\* linked: how the push went; got: the Shopify order it has; meta: what it will write.
Idle == [at |-> "idle"]
Asking == [at : {"find", "insert"}, key : Keys, body : Bodies]
Working == [at : {"wait", "look", "claim", "notify", "noted", "complete", "answer", "store"} \cup Pushing,
            why : {"first", "finish", "again", "retry"}, key : Keys, body : Bodies,
            order : Orders, linked : BOOLEAN, got : Nat, meta : Metadata]
Rewriting == [at : {"write"}, order : Orders, meta : Metadata]

TypeOK ==
    /\ order \in [Orders -> Order \cup {Unused}]
    /\ key \in [Keys -> KeyRow \cup {NoKeyRow}]
    /\ job \in [Handlers -> {Idle} \cup Asking \cup Working]
    /\ rewrite \in [Writers -> {Idle} \cup Rewriting]
    /\ placed \in [Orders -> Nat]
    /\ late \in [Orders -> Nat]
    /\ hit \subseteq Orders

Init ==
    /\ order = [o \in Orders |-> Unused]
    /\ key = [k \in Keys |-> NoKeyRow]
    /\ job = [h \in Handlers |-> Idle]
    /\ rewrite = [c \in Writers |-> Idle]
    /\ placed = [o \in Orders |-> 0]
    /\ late = [o \in Orders |-> 0]
    /\ hit = {}

\* The metadata is written as a whole, from what was read of it before: a mark or a claim set
\* in between is gone.
Loses(o, meta) ==
    LET now == order[o].meta IN
    \/ now.uncertain /\ ~meta.uncertain
    \/ now.claim = "live" /\ meta.claim # "live"
    \/ now.claim = "over" /\ meta.claim = "none"
Hit(o) == hit' = hit \cup {o}
WriteBack(o, meta) ==
    /\ order' = [order EXCEPT ![o].meta = meta]
    /\ IF Loses(o, meta) THEN Hit(o) ELSE UNCHANGED hit

At(h, phase) == job[h].at = phase
Goto(h, phase) == job' = [job EXCEPT ![h].at = phase]
End(h) == job' = [job EXCEPT ![h] = Idle]
Work(phase, why, k, b, o) ==
    [at |-> phase, why |-> why, key |-> k, body |-> b, order |-> o,
     linked |-> FALSE, got |-> 0, meta |-> NoMetadata]

--------------------------------------------------------------------------------
(* A submission: createWithKey and replayOrder *)

Submit(h, k, b) ==
    /\ job[h] = Idle
    /\ job' = [job EXCEPT ![h] = [at |-> "find", key |-> k, body |-> b]]
    /\ UNCHANGED <<order, key, rewrite, shopify>>

\* Fault: whatever is asked for, the key's order is the answer.
FindByKeyAlone(h) ==
    /\ At(h, "find")
    /\ LET k == job[h].key IN
        IF key[k] = NoKeyRow THEN Goto(h, "insert")
        ELSE job' = [job EXCEPT ![h] = Work("wait", "finish", k, job[h].body, key[k].order)]
    /\ UNCHANGED <<order, key, rewrite, shopify>>

\* The key's row is looked for: an unknown key makes an order, a key of another request
\* is refused, a repeat is answered with the order there is.
Find(h) ==
    /\ At(h, "find")
    /\ LET k == job[h].key IN
        IF key[k] = NoKeyRow THEN Goto(h, "insert")
        ELSE IF key[k].body # job[h].body THEN End(h)
        ELSE job' = [job EXCEPT ![h] = Work("wait", "finish", k, job[h].body, key[k].order)]
    /\ UNCHANGED <<order, key, rewrite, shopify>>

\* The row and the order, in one transaction.
Make(h, o) ==
    LET k == job[h].key
        b == job[h].body
    IN  /\ order[o] = Unused
        /\ \A p \in Orders : p < o => order[p] # Unused
        /\ order' = [order EXCEPT ![o] = [made |-> TRUE, key |-> k, body |-> b, linked |-> 0,
                                          meta |-> NoMetadata]]
        /\ key' = [key EXCEPT ![k] = [status |-> "ORDER_CREATED", order |-> o, body |-> b,
                                      shopify |-> "none"]]
        /\ job' = [job EXCEPT ![h] = Work("look", "first", k, b, o)]

\* Fault: the key is not unique.
InsertAgain(h) ==
    /\ At(h, "insert")
    /\ \E o \in Orders : Make(h, o)
    /\ UNCHANGED <<rewrite, shopify>>

\* The unique index decides: the loser reads the winner's row and replays it.
Insert(h) ==
    /\ At(h, "insert")
    /\ IF key[job[h].key] = NoKeyRow
       THEN \E o \in Orders : Make(h, o)
       ELSE Goto(h, "find") /\ UNCHANGED <<order, key>>
    /\ UNCHANGED <<rewrite, shopify>>

\* A repeat waits for the original to finish, and finishes it itself after a while.
Wait(h) ==
    /\ At(h, "wait")
    /\ Goto(h, IF key[job[h].key].status = "COMPLETED" THEN "answer" ELSE "look")
    /\ UNCHANGED <<order, key, rewrite, shopify>>

\* recordOrderNotification, after the customer of a new order was notified: the metadata is
\* read ...
NotifyRead(h) ==
    /\ At(h, "notify")
    /\ \/ job' = [job EXCEPT ![h].at = "noted", ![h].meta = order[job[h].order].meta]
       \/ Goto(h, "complete")
    /\ UNCHANGED <<order, key, rewrite, shopify>>

\* ... and written back with the outcome.  A statement that fails is passed over.
NotifyWrite(h) ==
    /\ At(h, "noted")
    /\ WriteBack(job[h].order, job[h].meta) \/ UNCHANGED <<order, hit>>
    /\ Goto(h, "complete")
    /\ UNCHANGED <<key, rewrite, placed, late>>

\* Fault: the order counts as linked once its submission is complete.
CompleteLinked(h) ==
    /\ At(h, "complete")
    /\ key' = [key EXCEPT ![job[h].key].status = "COMPLETED", ![job[h].key].shopify = "linked"]
    /\ End(h)
    /\ UNCHANGED <<order, rewrite, shopify>>

\* completeIdempotency, once: the row is completed with the outcome of the push.  A repeat
\* that finished it reads the row back.
Complete(h) ==
    /\ At(h, "complete")
    /\ LET k == job[h].key IN
        key' = IF key[k].status = "COMPLETED" THEN key
               ELSE [key EXCEPT ![k].status = "COMPLETED",
                                ![k].shopify = IF job[h].linked THEN "linked" ELSE "failed"]
    /\ IF job[h].why = "first" THEN End(h) ELSE Goto(h, "answer")
    /\ UNCHANGED <<order, rewrite, shopify>>

\* The repeat is answered from the row; an order whose push failed is pushed again.
Answer(h) ==
    /\ At(h, "answer")
    /\ LET w == job[h] IN
        IF key[w.key].shopify = "failed" /\ order[w.order].linked = 0
        THEN job' = [job EXCEPT ![h] = Work("look", "again", w.key, w.body, w.order)]
        ELSE End(h)
    /\ UNCHANGED <<order, key, rewrite, shopify>>

\* Its outcome replaces the one in the row.
Store(h) ==
    /\ At(h, "store")
    /\ key' = [key EXCEPT ![job[h].key].shopify = IF job[h].linked THEN "linked" ELSE "failed"]
    /\ End(h)
    /\ UNCHANGED <<order, rewrite, shopify>>

\* A user asks for the push of an order.
RetryPush(h, o) ==
    /\ job[h] = Idle
    /\ order[o] # Unused
    /\ job' = [job EXCEPT ![h] = Work("look", "retry", order[o].key, order[o].body, o)]
    /\ UNCHANGED <<order, key, rewrite, shopify>>

--------------------------------------------------------------------------------
(* The push: linkOrderToShopify *)

\* The push is over, and its caller goes on.
Onward == [first |-> "notify", finish |-> "complete", again |-> "store"]
Pushed(h, linked) ==
    job' = [job EXCEPT ![h] = IF job[h].why = "retry" THEN Idle
        ELSE [Work(Onward[job[h].why], job[h].why, job[h].key, job[h].body, job[h].order)
                 EXCEPT !.linked = linked]]
Held(o) == \E h \in Handlers : job[h].at \in Pushing /\ job[h].order = o
Releasing(h, linked) == job' = [job EXCEPT ![h].at = "release", ![h].linked = linked]

Look(h) ==
    /\ At(h, "look")
    /\ IF order[job[h].order].linked # 0 THEN Pushed(h, TRUE) ELSE Goto(h, "claim")
    /\ UNCHANGED <<order, key, rewrite, shopify>>

\* Faults: a claim is never taken over; one taken over is like a new one.
ClaimableIfFree(o) == order[o].linked = 0 /\ order[o].meta.claim = "none"
ClaimedAnew(meta) == [claim |-> "live", uncertain |-> meta.uncertain]

Claimable(o) == order[o].linked = 0 /\ order[o].meta.claim # "live"

\* A claim taken over: its holder may have created the Shopify order.
Claimed(meta) == [claim |-> "live", uncertain |-> meta.uncertain \/ meta.claim = "over"]

\* One conditional UPDATE claims the push; otherwise the order is linked meanwhile, or the
\* claim is waited for and the push given up.
Claim(h) ==
    LET o == job[h].order IN
    /\ At(h, "claim")
    /\ IF Claimable(o)
       THEN order' = [order EXCEPT ![o].meta = Claimed(@)] /\ Goto(h, "read")
       ELSE Pushed(h, order[o].linked # 0) /\ UNCHANGED order
    /\ UNCHANGED <<key, rewrite, shopify>>

\* The order is read again: linked meanwhile, to be looked for first, or to be created.
\* Shopify may not be configured, and preparing what is sent may throw.
Read(h) ==
    LET o == job[h].order IN
    /\ At(h, "read")
    /\ \/ order[o].linked # 0 /\ Releasing(h, TRUE)
       \/ order[o].linked = 0 /\ Goto(h, IF order[o].meta.uncertain THEN "lookup" ELSE "create")
       \/ order[o].linked = 0 /\ (Releasing(h, FALSE) \/ Goto(h, "throw"))
    /\ UNCHANGED <<order, key, rewrite, shopify>>

\* findShopifyOrderBySourceIdentifier: none is found, one, several (refused); or no answer.
Lookup(h) ==
    LET n == placed[job[h].order] IN
    /\ At(h, "lookup")
    /\ \/ n = 0 /\ Goto(h, "create")
       \/ n = 1 /\ job' = [job EXCEPT ![h].at = "link", ![h].got = 1]
       \/ n > 1 /\ Releasing(h, FALSE)
       \/ Goto(h, "unanswered")
    /\ UNCHANGED <<order, key, rewrite, shopify>>

Place(o) == placed[o] + late[o] < MaxPlaced /\ placed' = [placed EXCEPT ![o] = @ + 1]

CreateAnswered(h) ==
    LET o == job[h].order IN
    /\ At(h, "create")
    /\ Place(o)
    /\ job' = [job EXCEPT ![h].at = "link", ![h].got = placed'[o]]
    /\ UNCHANGED <<order, key, rewrite, late, hit>>

\* Shopify refuses it, with or without the customer: nothing is created; the refusal of
\* the charges is recorded on the order.
CreateRefused(h) ==
    /\ At(h, "create")
    /\ Releasing(h, FALSE) \/ Goto(h, "refused")
    /\ UNCHANGED <<order, key, rewrite, shopify>>

\* What becomes of a create that is not answered: executed, lost, or still under way.
Unanswered(o) ==
    \/ Place(o) /\ UNCHANGED late
    \/ UNCHANGED <<placed, late>>
    \/ /\ "late create" \in Mishaps
       /\ placed[o] + late[o] < MaxPlaced
       /\ late' = [late EXCEPT ![o] = @ + 1]
       /\ UNCHANGED placed

CreateUnanswered(h) ==
    /\ At(h, "create")
    /\ Unanswered(job[h].order)
    /\ Goto(h, "unanswered")
    /\ UNCHANGED <<order, key, rewrite, hit>>

\* The client sends a create again that was answered with 429, 502, 503 or 504.
CreateResent(h) ==
    /\ At(h, "create")
    /\ "executed 50x" \in Mishaps
    /\ Place(job[h].order)
    /\ Hit(job[h].order)
    /\ UNCHANGED <<order, key, job, rewrite, late>>

\* The metadata is read ...
Note(h) ==
    LET meta == order[job[h].order].meta IN
    /\ job[h].at \in {"unanswered", "refused"}
    /\ job' = [job EXCEPT ![h].at = "record",
                          ![h].meta = [meta EXCEPT !.uncertain = @ \/ At(h, "unanswered")]]
    /\ UNCHANGED <<order, key, rewrite, shopify>>

\* Fault: what Shopify left open is not remembered.
RecordNothing(h) ==
    /\ At(h, "record")
    /\ Releasing(h, FALSE)
    /\ UNCHANGED <<order, key, rewrite, shopify>>

\* ... and written back as a whole.
Record(h) ==
    /\ At(h, "record")
    /\ order' = [order EXCEPT ![job[h].order].meta = job[h].meta]
    /\ Releasing(h, FALSE)
    /\ UNCHANGED <<key, rewrite, shopify>>

\* The order is linked, unless another push linked it first.
Link(h) ==
    LET o == job[h].order IN
    /\ At(h, "link")
    /\ order' = [order EXCEPT ![o].linked = IF @ = 0 THEN job[h].got ELSE @]
    /\ Releasing(h, TRUE)
    /\ UNCHANGED <<key, rewrite, shopify>>

\* A statement after the call to Shopify fails: the push throws.
WriteFails(h) ==
    /\ "failed write" \in Mishaps
    /\ job[h].at \in {"unanswered", "refused", "record", "link"}
    /\ Goto(h, "throw")
    /\ Hit(job[h].order)
    /\ UNCHANGED <<order, key, rewrite, placed, late>>

\* Fault: the metadata is replaced, where a member of it should be removed.
ReleaseAll(h) ==
    /\ job[h].at \in {"release", "throw"}
    /\ order' = [order EXCEPT ![job[h].order].meta = [claim |-> "none"]]
    /\ IF At(h, "release") THEN Pushed(h, job[h].linked) ELSE End(h)
    /\ UNCHANGED <<key, rewrite, shopify>>

\* finally: the claim is removed, whoever holds it now.
Release(h) ==
    /\ job[h].at \in {"release", "throw"}
    /\ order' = [order EXCEPT ![job[h].order].meta.claim = "none"]
    /\ IF At(h, "release") THEN Pushed(h, job[h].linked) ELSE End(h)
    /\ UNCHANGED <<key, rewrite, shopify>>

--------------------------------------------------------------------------------
(* Other writers of the metadata; failures and time *)

\* cancelOrder, revertCancellation and the offers to pay in advance read the metadata of an
\* order ...
MetadataRead(c, o) ==
    /\ rewrite[c] = Idle
    /\ order[o] # Unused
    /\ rewrite' = [rewrite EXCEPT ![c] = [at |-> "write", order |-> o, meta |-> order[o].meta]]
    /\ UNCHANGED <<order, key, job, shopify>>

\* ... and write it back; cancelOrder once with preCancelStatus and once with what came of it.
MetadataWrite(c) ==
    /\ rewrite[c] # Idle
    /\ WriteBack(rewrite[c].order, rewrite[c].meta)
    /\ rewrite' \in {rewrite, [rewrite EXCEPT ![c] = Idle]}
    /\ UNCHANGED <<key, job, placed, late>>

\* The process stops, or a statement outside the claim fails.  A create it had sent is
\* one without an answer.
Stop(h) ==
    /\ job[h] # Idle
    /\ IF At(h, "create") THEN Unanswered(job[h].order) ELSE UNCHANGED <<placed, late>>
    /\ End(h)
    /\ UNCHANGED <<order, key, rewrite, hit>>

LateCreate(o) ==
    /\ late[o] > 0
    /\ late' = [late EXCEPT ![o] = @ - 1]
    /\ \/ placed' = [placed EXCEPT ![o] = @ + 1] /\ Hit(o)
       \/ UNCHANGED <<placed, hit>>
    /\ UNCHANGED <<order, key, job, rewrite>>

\* A claim gets older than its lease.
LeaseEnds(o) ==
    /\ order[o] # Unused /\ order[o].meta.claim = "live"
    /\ \/ ~Held(o) /\ UNCHANGED hit
       \/ Held(o) /\ "outlived lease" \in Mishaps /\ Hit(o)
    /\ order' = [order EXCEPT ![o].meta.claim = "over"]
    /\ UNCHANGED <<key, job, rewrite, placed, late>>

--------------------------------------------------------------------------------
Step(h) ==
    \/ Find(h) \/ Insert(h) \/ Wait(h) \/ NotifyRead(h) \/ NotifyWrite(h)
    \/ Complete(h) \/ Answer(h) \/ Store(h)
    \/ Look(h) \/ Claim(h) \/ Read(h) \/ Lookup(h)
    \/ CreateAnswered(h) \/ CreateRefused(h) \/ CreateUnanswered(h) \/ CreateResent(h)
    \/ Note(h) \/ Record(h) \/ Link(h) \/ WriteFails(h) \/ Release(h)

Next ==
    \/ \E h \in Handlers : Step(h) \/ Stop(h)
    \/ \E h \in Handlers, k \in Keys, b \in Bodies : Submit(h, k, b)
    \/ \E h \in Handlers, o \in Orders : RetryPush(h, o)
    \/ \E c \in Writers : MetadataWrite(c) \/ \E o \in Orders : MetadataRead(c, o)
    \/ \E o \in Orders : LateCreate(o) \/ LeaseEnds(o)

Spec == Init /\ [][Next]_vars

\* Something fails: Shopify refuses or does not answer, the push throws, or a process stops
\* where it would not have ended anyway.
Failure ==
    \E h \in Handlers :
        \/ Stop(h) /\ ~Step(h)
        \/ CreateRefused(h) \/ CreateUnanswered(h)
        \/ Read(h) /\ order[job[h].order].linked = 0 /\ job'[h].at \in {"release", "throw"}
        \/ Lookup(h) /\ job'[h].at = "unanswered"

\* The browser sends the submission again until it is answered with a Shopify order; no
\* handler hangs (each call has a timeout), and a claim gets old.  The failures, however
\* many, are over at some time.
Fairness ==
    /\ \A k \in Keys, b \in Bodies : SF_vars(\E h \in Handlers : Submit(h, k, b))
    /\ \A h \in Handlers : WF_vars(Step(h))
    /\ \A o \in Orders : WF_vars(LeaseEnds(o))
    /\ <>[][~Failure]_vars

FairSpec == Spec /\ Fairness

--------------------------------------------------------------------------------
(* Properties *)

\* "exactly one order per key" (orders.service.ts:956): two requests with one key, in one
\* process or several, never both make an order.
Made(o) == order[o] # Unused
OneOrderPerKey ==
    \A o, p \in Orders : Made(o) /\ Made(p) /\ order[o].key = order[p].key => o = p

\* "the same key with a different request is refused, not answered with the wrong order"
\* (orders.idempotency.ts:37): a handler works only on an order that was made for exactly
\* what its request asks for.
OwnOrder ==
    \A h \in Handlers : job[h] \in Working /\ job[h].why # "retry" =>
        Made(job[h].order) /\ order[job[h].order].body = job[h].body

\* A submission is recorded as pushed only when its order is linked, and an order is
\* linked only to a Shopify order that exists.
LinksExist ==
    /\ \A k \in Keys : key[k] # NoKeyRow /\ key[k].shopify = "linked" => order[key[k].order].linked # 0
    /\ \A o \in Orders : Made(o) => order[o].linked <= placed[o]

\* However a push ended, the next one finds the Shopify order it may have created: it
\* looks for it first, or a claim makes it do so; except where a mishap hit the order, or a
\* write of the whole metadata (a notification, a cancellation, an offer) lost mark or claim.
OrphansRemembered ==
    \A o \in Orders : Made(o) /\ order[o].linked = 0 /\ placed[o] > 0 /\ o \notin hit /\ ~Held(o) =>
        order[o].meta.uncertain \/ order[o].meta.claim # "none"

\* pushOrderToShopify may be repeated "without ever creating a second Shopify order for the
\* same CRM order" (orders.service.ts:1100-1102), however pushes, repeats, lost answers and
\* stopped processes interleave; except where one of the mishaps hit the order, or its mark or
\* claim was lost to a write of the whole metadata.
SecondOrderNeedsMishap ==
    \A o \in Orders : placed[o] > 1 => o \in hit

\* The same without the exception.
OneShopifyOrder ==
    \A o \in Orders : placed[o] <= 1

\* "one that was interrupted (crash, timeout, lost Shopify answer) is reconciled"
\* (orders.service.ts:757): the repeats of a submission get its order linked in the end,
\* whatever was interrupted before and whoever held the claim; except where its mark or claim
\* was lost, since an order that is in Shopify twice is never linked.
Linked(k) == key[k] # NoKeyRow /\ order[key[k].order].linked # 0
EventuallyLinked ==
    \A k \in Keys : key[k] # NoKeyRow ~> Linked(k) \/ \E o \in hit : order[o].key = k
================================================================================
