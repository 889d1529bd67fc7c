-------------------------- MODULE OrderSubmission --------------------------
(***************************************************************************)
(* POST /api/orders/execute: the preHandler chain of src/routes/orders.ts  *)
(* (rate limit, backpressure, idempotency) and the controller's            *)
(* executeOrder, for requests served side by side.  Every step is the code *)
(* between two awaits.  A request that creates an order gives it a fresh   *)
(* uuid, so the order is named by the request.                             *)
(*                                                                         *)
(* What can go wrong is fixed for a behaviour by the variable faults:      *)
(*   redis    a command rejects, before or after it took effect            *)
(*   db       the INSERT rejects, before or after it took effect           *)
(*   expire   a client comes back when its key is more than 300 s old      *)
(*   crash    the process dies and is restarted                            *)
(*   overlap  a client repeats a key while that key is still being served  *)
(*   retry    a job that a worker took comes back to the wait list         *)
(***************************************************************************)
EXTENDS Naturals, FiniteSets

CONSTANTS
  Requests,     \* HTTP requests, and the orders they create
  NoOrder,      \* no order
  Keys,         \* Idempotency-Key headers
  NoKey,        \* a request without the header
  Bodies,       \* request bodies, by hash
  NoBody,       \* the body of a request not yet sent
  Invalid,      \* the bodies validateOrderRequest refuses
  Missing,      \* those of them that are no body at all
  Unstorable,   \* the bodies whose amount the INSERT refuses
  Threshold,    \* QUEUE_DEPTH_THRESHOLD
  MaxInFlight,  \* how many requests the clients keep open at once
  Scenarios     \* the fault sets to consider

FaultKinds == {"redis", "db", "expire", "crash", "overlap", "retry"}

ASSUME SubmissionAssumption ==
  /\ IsFiniteSet(Requests)
  /\ NoOrder \notin Requests
  /\ NoKey \notin Keys
  /\ NoBody \notin Bodies
  /\ Missing \subseteq Invalid /\ Invalid \subseteq Bodies /\ Unstorable \subseteq Bodies
  /\ Threshold \in Nat /\ MaxInFlight \in Nat
  /\ Scenarios \subseteq SUBSET FaultKinds

VARIABLES
  faults,   \* the fault kinds of this behaviour, never changed
  req,      \* [Requests -> the request and where its handling is]
  cache,    \* [Keys -> what Redis holds under idempotency:<key>]
  rows,     \* the orders in the database
  jobs,     \* the orders ever added to the queue
  taken,    \* those of them that a worker has taken at least once
  waiting   \* those of them that are on the wait list

vars == <<faults, req, cache, rows, jobs, taken, waiting>>

-----------------------------------------------------------------------------
(* Types *)

Label == {"new", "rateLimit", "queueDepth", "queueHealth", "idempotency",
          "create", "enqueue", "store", "done"}

Code == {0, 200, 400, 409, 429, 500, 503}

(* noted: the middleware left key and hash on the request for the handler;  *)
(* code, order and the header Retry-After are the answer, code 0 when there *)
(* is none.                                                                 *)
Request == [pc : Label, key : Keys \cup {NoKey}, body : Bodies \cup {NoBody}, noted : BOOLEAN,
            code : Code, retryAfter : BOOLEAN, order : Requests \cup {NoOrder}]

Unsent == [pc |-> "new", key |-> NoKey, body |-> NoBody, noted |-> FALSE,
           code |-> 0, retryAfter |-> FALSE, order |-> NoOrder]

NoEntry == [order |-> NoOrder, body |-> NoBody]

Entry == [order : Requests, body : Bodies]

TypeOK ==
  /\ faults \in SUBSET FaultKinds
  /\ req \in [Requests -> Request]
  /\ cache \in [Keys -> Entry \cup {NoEntry}]
  /\ rows \subseteq Requests
  /\ jobs \subseteq Requests
  /\ taken \subseteq jobs
  /\ waiting \subseteq jobs

Init ==
  /\ faults \in Scenarios
  /\ req = [r \in Requests |-> Unsent]
  /\ cache = [k \in Keys |-> NoEntry]
  /\ rows = {}
  /\ jobs = {}
  /\ taken = {}
  /\ waiting = {}

-----------------------------------------------------------------------------
(* Clients *)

InFlight == {r \in Requests : req[r].pc \notin {"new", "done"}}

(* A client sends request r, with a key (old or new) or without. *)
Send(r, k, b) ==
  /\ req[r].pc = "new"
  /\ Cardinality(InFlight) < MaxInFlight
  /\ k # NoKey /\ "overlap" \notin faults => \A q \in InFlight : req[q].key # k
  /\ req' = [req EXCEPT ![r].pc = "rateLimit", ![r].key = k, ![r].body = b]
  /\ UNCHANGED <<faults, cache, rows, jobs, taken, waiting>>

-----------------------------------------------------------------------------
(* The preHandlers.  Each catches the errors of Redis and lets the request *)
(* on; one that sends an answer ends the chain.                            *)

Goto(r, label) == req' = [req EXCEPT ![r].pc = label]

Answer(r, code, order) ==
  req' = [req EXCEPT ![r].pc = "done", ![r].code = code, ![r].order = order]

(* A refusal with the header Retry-After: 429, and 503 of the backpressure. *)
AskToRetry(r, code) ==
  req' = [req EXCEPT ![r].pc = "done", ![r].code = code, ![r].retryAfter = TRUE]

(* rateLimitMiddleware; whether the window is full is RateLimiter's matter. *)
RateLimit(r) ==
  /\ req[r].pc = "rateLimit"
  /\ \/ AskToRetry(r, 429)
     \/ Goto(r, "queueDepth")
  /\ UNCHANGED <<faults, cache, rows, jobs, taken, waiting>>

(* Mutant: the threshold is one too high. *)
OverloadedLate == Cardinality(waiting) > Threshold + 1

(* isQueueOverloaded *)
Overloaded == Cardinality(waiting) > Threshold

(* backpressureMiddleware up to isQueueOverloaded's answer. *)
QueueDepth(r) ==
  /\ req[r].pc = "queueDepth"
  /\ \/ Goto(r, IF Overloaded THEN "queueHealth" ELSE "idempotency")
     \/ /\ "redis" \in faults
        /\ Goto(r, "idempotency")
  /\ UNCHANGED <<faults, cache, rows, jobs, taken, waiting>>

(* Mutant: the refusal of an overloaded queue does not end the chain. *)
QueueHealthFallsThrough(r) ==
  /\ req[r].pc = "queueHealth"
  /\ req' = [req EXCEPT ![r].pc = "idempotency", ![r].code = 503, ![r].retryAfter = TRUE]
  /\ UNCHANGED <<faults, cache, rows, jobs, taken, waiting>>

(* getQueueHealth, for the details of the refusal. *)
QueueHealth(r) ==
  /\ req[r].pc = "queueHealth"
  /\ \/ AskToRetry(r, 503)
     \/ /\ "redis" \in faults
        /\ Goto(r, "idempotency")
  /\ UNCHANGED <<faults, cache, rows, jobs, taken, waiting>>

(* Where the handler takes the request: validation comes before any await. *)
Handled(r, noted) ==
  IF req[r].body \in Invalid
  THEN [req EXCEPT ![r].pc = "done", ![r].noted = noted, ![r].code = 400]
  ELSE [req EXCEPT ![r].pc = "create", ![r].noted = noted]

(* Mutant: the stored hash is not compared. *)
ReplayAnyBody(r) ==
  /\ req[r].key # NoKey
  /\ cache[req[r].key] # NoEntry
  /\ Answer(r, 200, cache[req[r].key].order)

(* A known key: the stored order, or 409 when the body is another one. *)
Replay(r) ==
  LET entry == cache[req[r].key] IN
  /\ req[r].key # NoKey
  /\ entry # NoEntry
  /\ IF entry.body = req[r].body
     THEN Answer(r, 200, entry.order)
     ELSE Answer(r, 409, NoOrder)

(* Mutant: the middleware claims an unknown key for the order to come. *)
IdempotencyClaiming(r) ==
  /\ req[r].pc = "idempotency"
  /\ \/ /\ Replay(r)
        /\ UNCHANGED cache
     \/ /\ req[r].key # NoKey
        /\ cache[req[r].key] = NoEntry
        /\ cache' = [cache EXCEPT ![req[r].key] = [order |-> r, body |-> req[r].body]]
        /\ req' = Handled(r, FALSE)
     \/ /\ req[r].key = NoKey
        /\ req' = Handled(r, FALSE)
        /\ UNCHANGED cache
  /\ UNCHANGED <<faults, rows, jobs, taken, waiting>>

(* A missing body cannot be hashed, and nothing catches what hashBody then  *)
(* throws.                                                                  *)
Unhashable(r) == req[r].key # NoKey /\ req[r].body \in Missing

(* idempotencyMiddleware, and the handler up to its first await.  When GET  *)
(* rejects, the request goes on without a note: its order is not stored.    *)
Idempotency(r) ==
  /\ req[r].pc = "idempotency"
  /\ \/ /\ Unhashable(r)
        /\ Answer(r, 500, NoOrder)
     \/ /\ ~Unhashable(r)
        /\ \/ Replay(r)
           \/ /\ req[r].key # NoKey
              /\ cache[req[r].key] = NoEntry
              /\ req' = Handled(r, TRUE)
           \/ /\ req[r].key = NoKey \/ "redis" \in faults
              /\ req' = Handled(r, FALSE)
  /\ UNCHANGED <<faults, cache, rows, jobs, taken, waiting>>

-----------------------------------------------------------------------------
(* OrderController.executeOrder and OrderService.submitOrder *)

(* Mutant: the amount is refused after the row is written. *)
CreateOrderThenRefuse(r) ==
  /\ req[r].pc = "create"
  /\ rows' = rows \cup {r}
  /\ IF req[r].body \in Unstorable THEN Answer(r, 503, NoOrder) ELSE Goto(r, "enqueue")
  /\ UNCHANGED <<faults, cache, jobs, taken, waiting>>

CreateOrder(r) ==
  /\ req[r].pc = "create"
  /\ \/ /\ req[r].body \notin Unstorable
        /\ rows' = rows \cup {r}
        /\ Goto(r, "enqueue")
     \/ /\ req[r].body \in Unstorable
        /\ rows' = rows
        /\ Answer(r, 503, NoOrder)
     \/ /\ "db" \in faults
        /\ req[r].body \notin Unstorable
        /\ rows' \in {rows, rows \cup {r}}
        /\ Answer(r, 503, NoOrder)
  /\ UNCHANGED <<faults, cache, jobs, taken, waiting>>

(* Mutant: the result is never stored. *)
SubmittedUnstored(r) == Answer(r, 200, r)

(* Where submitOrder's order id takes the request. *)
Submitted(r) ==
  IF req[r].noted THEN Goto(r, "store") ELSE Answer(r, 200, r)

EnqueueOrder(r) ==
  /\ req[r].pc = "enqueue"
  /\ \/ /\ jobs' = jobs \cup {r}
        /\ waiting' = waiting \cup {r}
        /\ Submitted(r)
     \/ /\ "redis" \in faults
        /\ \/ /\ jobs' = jobs \cup {r}
              /\ waiting' = waiting \cup {r}
           \/ UNCHANGED <<jobs, waiting>>
        /\ Answer(r, 503, NoOrder)
  /\ UNCHANGED <<faults, cache, rows, taken>>

(* Mutant: the result is stored without the hash of the body. *)
StoredWithoutHash(r) == [cache EXCEPT ![req[r].key] = [order |-> r, body |-> NoBody]]

Stored(r) == [cache EXCEPT ![req[r].key] = [order |-> r, body |-> req[r].body]]

(* storeIdempotencyResult: SET with a TTL.  A failure answers 503, although *)
(* the order is on its way.                                                 *)
StoreResult(r) ==
  /\ req[r].pc = "store"
  /\ \/ /\ cache' = Stored(r)
        /\ Answer(r, 200, r)
     \/ /\ "redis" \in faults
        /\ cache' \in {cache, Stored(r)}
        /\ Answer(r, 503, NoOrder)
  /\ UNCHANGED <<faults, rows, jobs, taken, waiting>>

-----------------------------------------------------------------------------
(* The environment *)

(* A worker takes a job off the wait list. *)
TakeJob(o) ==
  /\ o \in waiting
  /\ waiting' = waiting \ {o}
  /\ taken' = taken \cup {o}
  /\ UNCHANGED <<faults, req, cache, rows, jobs>>

(* The backoff of a job that failed is over, or a stalled job is requeued.  *)
Requeue(o) ==
  /\ "retry" \in faults
  /\ o \in taken \ waiting
  /\ waiting' = waiting \cup {o}
  /\ UNCHANGED <<faults, req, cache, rows, jobs, taken>>

(* The TTL of a key runs out. *)
Expire(k) ==
  /\ "expire" \in faults
  /\ cache[k] # NoEntry
  /\ cache' = [cache EXCEPT ![k] = NoEntry]
  /\ UNCHANGED <<faults, req, rows, jobs, taken, waiting>>

(* The process dies: requests in flight are never answered. *)
Crash ==
  /\ "crash" \in faults
  /\ InFlight # {}
  /\ req' = [r \in Requests |-> IF r \in InFlight THEN [req[r] EXCEPT !.pc = "done"]
                                ELSE req[r]]
  /\ UNCHANGED <<faults, cache, rows, jobs, taken, waiting>>

-----------------------------------------------------------------------------
(* The specification *)

Serve(r) ==
  \/ RateLimit(r)
  \/ QueueDepth(r)
  \/ QueueHealth(r)
  \/ Idempotency(r)
  \/ CreateOrder(r)
  \/ EnqueueOrder(r)
  \/ StoreResult(r)

Next ==
  \/ \E r \in Requests, k \in Keys \cup {NoKey}, b \in Bodies : Send(r, k, b)
  \/ \E r \in Requests : Serve(r)
  \/ \E o \in Requests : TakeJob(o)
  \/ \E o \in Requests : Requeue(o)
  \/ \E k \in Keys : Expire(k)
  \/ Crash

Spec == Init /\ [][Next]_vars

-----------------------------------------------------------------------------
(* Properties.  Those that some fault defeats name the faults they bar; the *)
(* others hold whatever goes wrong.                                         *)

Without(kinds) == faults \cap kinds = {}

(* An answer 200 is a promise kept: the order it names, created now or      *)
(* replayed from the cache, has its row and its job, and it is the order of *)
(* the very body (and key) of the request that is answered.                 *)
AnswerIsBacked ==
  \A r \in Requests : req[r].code = 200 =>
    LET o == req[r].order IN
    /\ o \in rows \cap jobs
    /\ req[o].body = req[r].body
    /\ o # r => req[o].key = req[r].key

(* A 409 is deserved: the key did create an order, for another body. *)
ConflictIsReal ==
  \A r \in Requests : req[r].code = 409 =>
    \E o \in jobs : req[o].key = req[r].key /\ req[o].body # req[r].body

(* The requests that are refused before they are executed, or answered with *)
(* an earlier order: 503 with Retry-After is the overloaded queue's, without *)
(* it the handler's, which promises nothing.                                *)
Refused(r) ==
  \/ req[r].code \in {400, 409, 429, 500}
  \/ req[r].code = 503 /\ req[r].retryAfter
  \/ req[r].code = 200 /\ req[r].order # r

(* What a refusal promises: the chain ends with it, and no row and no job   *)
(* is created for the request, then or later.                               *)
RefusalCreatesNothing ==
  \A r \in Requests : Refused(r) => r \notin rows \cup jobs

(* What only a failing Redis makes of a keyed order: its request passed     *)
(* without a note of the key, or was told 503 after its job was added.      *)
Forgotten(o) == "redis" \in faults /\ (~req[o].noted \/ req[o].code = 503)

(* A client that repeats a key only after its last request was answered     *)
(* gets one job for it, unless the key ages out or the process dies in      *)
(* between: of two jobs of a key, Redis has made one be forgotten.          *)
OneJobPerKey ==
  Without({"overlap", "expire", "crash"}) =>
    \A o, p \in jobs :
      req[o].key = req[p].key /\ req[o].key # NoKey /\ o # p => Forgotten(o) \/ Forgotten(p)

(* The depth check and the add are apart, so that new jobs can overshoot    *)
(* the threshold, but by no more than the requests served at once.  Jobs    *)
(* that come back to the wait list are subject to no check and not counted. *)
Admitted == {r \in Requests : req[r].pc \in {"idempotency", "create", "enqueue"}}

QueueOvershoot ==
  Without({"redis"}) =>
    Cardinality(waiting \ taken) + Cardinality(Admitted) <= Threshold + MaxInFlight

(* An order that nobody will process has a row and no job: its request is   *)
(* about to add it, or a failure has ended the request, and then the client *)
(* was told so, or was told nothing by a process that died.                 *)
NoOrphanRow ==
  \A o \in rows \ jobs :
    \/ req[o].pc = "enqueue"
    \/ /\ req[o].pc = "done"
       /\ \/ req[o].code = 503 /\ ~Without({"db", "redis"})
          \/ req[o].code = 0 /\ ~Without({"crash"})

-----------------------------------------------------------------------------
(* The inductive strengthening: how far a request has come tells what it    *)
(* has created, and a key tells which order it stands for.                  *)

(* A request is answered once, creates its row before its job, and stores   *)
(* its order only with the key it came with.                                *)
Sequenced ==
  \A r \in Requests :
    /\ IF req[r].pc = "new" THEN req[r] = Unsent ELSE req[r].body \in Bodies
    /\ req[r].pc # "done" => req[r].code = 0 /\ ~req[r].retryAfter
    /\ req[r].noted => req[r].key # NoKey
    /\ r \in rows => req[r].pc \in {"enqueue", "store", "done"}
    /\ r \in jobs => r \in rows /\ req[r].pc \in {"store", "done"}
    /\ req[r].pc = "enqueue" => r \in rows
    /\ req[r].pc = "store" => r \in jobs /\ req[r].noted

(* What is stored under a key is an order of that key, with its body.       *)
EntriesBacked ==
  \A k \in Keys : cache[k] # NoEntry =>
    LET o == cache[k].order IN
    o \in jobs /\ req[o].key = k /\ req[o].body = cache[k].body

(* As long as no key is repeated too early, aged or cut off by a crash, a   *)
(* key belongs to one request at a time, its job is stored under it before  *)
(* the next unless Redis fails, and a request that has a note of its key    *)
(* has found nothing stored.                                                *)
KeysHeld ==
  Without({"overlap", "expire", "crash"}) =>
    /\ \A q, r \in InFlight : req[q].key = req[r].key /\ req[q].key # NoKey => q = r
    /\ \A o \in jobs : req[o].key # NoKey =>
         Forgotten(o) \/ req[o].pc = "store" \/ cache[req[o].key].order = o
    /\ \A r \in Requests :
         req[r].pc \in {"create", "enqueue", "store"} /\ req[r].key # NoKey =>
           IF req[r].noted THEN cache[req[r].key] = NoEntry ELSE "redis" \in faults

(* The clients keep their bound. *)
InFlightBounded == Cardinality(InFlight) <= MaxInFlight

IInv == /\ TypeOK
        /\ Sequenced
        /\ EntriesBacked
        /\ KeysHeld
        /\ InFlightBounded
        /\ AnswerIsBacked
        /\ ConflictIsReal
        /\ RefusalCreatesNothing
        /\ QueueOvershoot
        /\ NoOrphanRow

-----------------------------------------------------------------------------
(* What the documents say of the program and its code does not keep.        *)

(* docs/architecture_diagram.md: the same key with the same body returns    *)
(* the existing order and adds no job.  The middleware reads the key, the   *)
(* handler writes it after the job is added, and nothing holds it between.  *)
SameKeyNoNewJob ==
  \A o, p \in jobs :
    req[o].key = req[p].key /\ req[o].key # NoKey /\ req[o].body = req[p].body => o = p
=============================================================================
