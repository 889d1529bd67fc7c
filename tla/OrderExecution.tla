--------------------------- MODULE OrderExecution ---------------------------
(***************************************************************************)
(* The life of an order: OrderService.submitOrder creates and enqueues it, *)
(* BullMQ hands its job to a worker slot, and the consumer's processOrder  *)
(* drives it through OrderService.processOrder, publishing, retrying and   *)
(* failing it.  Each `await' of the code is one step here, so that every   *)
(* interleaving of slots, and every failure between two awaits, is a       *)
(* behaviour.                                                              *)
(*                                                                         *)
(* What can go wrong is fixed for a behaviour by the variable faults:      *)
(*   db        a query rejects, before or after it took effect             *)
(*   redis     PUBLISH or queue.add rejects, before or after it took effect*)
(*   dex       quotes or swap take longer than their withTimeout limit     *)
(*   slippage  a swap executes outside the requested tolerance             *)
(*   crash     a process dies; docker-compose restarts it                  *)
(*   stall     a live slot misses its lock renewals                        *)
(***************************************************************************)
EXTENDS OrderStore, FiniteSets

CONSTANTS
  Orders,           \* order ids (uuidv4, so never reused)
  Oversized,        \* orders whose amountOut overflows DECIMAL(18,9)
  NoOrder,          \* the order of an idle slot
  Processes,        \* processes that run a BullMQ Worker: app.ts and worker.ts
  Api,              \* the one of them that also serves HTTP (app.ts)
  Concurrency,      \* config.QUEUE_CONCURRENCY
  MaxRetries,       \* config.MAX_RETRIES
  MaxStalledCount,  \* BullMQ's default: 1
  Scenarios         \* the fault sets to consider

FaultKinds == {"db", "redis", "dex", "slippage", "crash", "stall"}

ASSUME ExecutionAssumption ==
  /\ Dex # {} /\ "none" \notin Dex
  /\ Oversized \subseteq Orders
  /\ NoOrder \notin Orders
  /\ Api \in Processes
  /\ Concurrency \in Nat \ {0}
  /\ MaxRetries \in Nat \ {0}
  /\ MaxStalledCount \in Nat
  /\ Scenarios \subseteq SUBSET FaultKinds

(* A slot is one of the Concurrency processors of a process's Worker. *)
Slots == Processes \X (1..Concurrency)

VARIABLES
  faults,      \* the fault kinds of this behaviour, never changed
  submission,  \* [Orders -> where submitOrder is]
  db,          \* the orders table
  pub,         \* [Orders -> the last status published on order:status:<id>]
  job,         \* [Orders -> BullMQ's record of the order's job]
  run,         \* [Slots -> the processor call the slot executes]
  late,        \* swaps still under way after their withTimeout gave up
  swaps        \* [Orders -> swaps the DEX has executed]

vars == <<faults, submission, db, pub, job, run, late, swaps>>

-----------------------------------------------------------------------------
(* Types *)

SubmissionState == {"new", "created", "accepted", "rejected"}

JobState == {"none", "waiting", "active", "delayed", "completed", "failed"}

(* made = attemptsMade, starts = attemptsStarted, stalls = stalledCounter; *)
(* lock is the start whose token holds the job's lock, 0 if nobody's does. *)
Job == [state : JobState, made : Nat, starts : Nat, stalls : Nat, lock : Nat]

NoJob == [state |-> "none", made |-> 0, starts |-> 0, stalls |-> 0, lock |-> 0]

BeforeSwap == {"publishRouting", "setRouting", "getQuotes", "setDex",
               "setBuilding", "executeSwap"}

AfterSwap == {"setSubmitted", "setConfirmed", "publishConfirmed", "complete",
              "failOrder", "publishFailed", "publishRetry", "reject"}

Label == BeforeSwap \cup AfterSwap

(* no is the number of this start of the job, attempt the attemptsMade the *)
(* slot read with the job, dex the venue selectBestDex chose.              *)
Idle == [pc |-> "idle", order |-> NoOrder, no |-> 0, attempt |-> 0, dex |-> "none"]

Run == {Idle} \cup [pc : Label, order : Orders, no : Nat, attempt : Nat,
                    dex : Dex \cup {"none"}]

(* A swap is named by the start that asked for it: a start asks only once. *)
Swap == [no : Nat, dex : Dex, within : BOOLEAN]

TypeOK ==
  /\ faults \in SUBSET FaultKinds
  /\ submission \in [Orders -> SubmissionState]
  /\ db \in [Orders -> Row]
  /\ pub \in [Orders -> Status \cup {"none"}]
  /\ job \in [Orders -> Job]
  /\ run \in [Slots -> Run]
  /\ late \subseteq [order : Orders, no : Nat, dex : Dex]
  /\ swaps \in [Orders -> SUBSET Swap]

Init ==
  /\ faults \in Scenarios
  /\ submission = [o \in Orders |-> "new"]
  /\ db = [o \in Orders |-> AbsentRow]
  /\ pub = [o \in Orders |-> "none"]
  /\ job = [o \in Orders |-> NoJob]
  /\ run = [w \in Slots |-> Idle]
  /\ late = {}
  /\ swaps = [o \in Orders |-> {}]

-----------------------------------------------------------------------------
(* OrderService.submitOrder: INSERT the row, then add the job. *)

(* Mutant: a rejected INSERT does not stop the submission. *)
InsertOrderIgnoringErrors(o) ==
  /\ submission[o] = "new"
  /\ submission' = [submission EXCEPT ![o] = "created"]
  /\ \/ db' = CreateOrder(db, o)
     \/ /\ "db" \in faults
        /\ db' = db
  /\ UNCHANGED <<faults, pub, job, run, late, swaps>>

InsertOrder(o) ==
  /\ submission[o] = "new"
  /\ \/ /\ db' = CreateOrder(db, o)
        /\ submission' = [submission EXCEPT ![o] = "created"]
     \/ /\ "db" \in faults
        /\ db' \in {db, CreateOrder(db, o)}
        /\ submission' = [submission EXCEPT ![o] = "rejected"]
  /\ UNCHANGED <<faults, pub, job, run, late, swaps>>

Added(o) == [job EXCEPT ![o].state = "waiting"]

EnqueueOrder(o) ==
  /\ submission[o] = "created"
  /\ \/ /\ job' = Added(o)
        /\ submission' = [submission EXCEPT ![o] = "accepted"]
     \/ /\ "redis" \in faults
        /\ job' \in {job, Added(o)}
        /\ submission' = [submission EXCEPT ![o] = "rejected"]
  /\ UNCHANGED <<faults, db, pub, run, late, swaps>>

-----------------------------------------------------------------------------
(* The consumer's processOrder around OrderService.processOrder.  A slot   *)
(* moves from await to await; Catch is where a throw inside the try lands. *)

Goto(w, label) == [run EXCEPT ![w].pc = label]

(* Mutant: the attempt is counted from one instead of from zero. *)
IsFinalAttemptOffByOne(w) == run[w].attempt + 2 >= MaxRetries

IsFinalAttempt(w) == run[w].attempt + 1 >= MaxRetries

(* Mutant: the final attempt is never recognised. *)
CatchAlwaysRetry(w) == "publishRetry"

Catch(w) == IF IsFinalAttempt(w) THEN "failOrder" ELSE "publishRetry"

(* An awaited UPDATE: it resolves, or rejects with or without its effect.  *)
Query(w, table, next, otherwise) ==
  /\ \/ /\ db' = table
        /\ run' = Goto(w, next)
     \/ /\ "db" \in faults
        /\ db' \in {db, table}
        /\ run' = Goto(w, otherwise)
  /\ UNCHANGED <<faults, submission, pub, job, late, swaps>>

Sent(o, status) == [pub EXCEPT ![o] = status]

(* An awaited PUBLISH on order:status:<id>. *)
PublishStatus(w, status, next, otherwise) ==
  /\ \/ /\ pub' = Sent(run[w].order, status)
        /\ run' = Goto(w, next)
     \/ /\ "redis" \in faults
        /\ pub' \in {pub, Sent(run[w].order, status)}
        /\ run' = Goto(w, otherwise)
  /\ UNCHANGED <<faults, submission, db, job, late, swaps>>

PublishRouting(w) ==
  /\ run[w].pc = "publishRouting"
  /\ PublishStatus(w, "routing", "setRouting", Catch(w))

SetRouting(w) ==
  /\ run[w].pc = "setRouting"
  /\ Query(w, UpdateOrderStatus(db, run[w].order, "routing"), "getQuotes", Catch(w))

(* Mutant: the quotes are awaited without a limit, for ever. *)
GetQuotesUnlimited(w) ==
  /\ run[w].pc = "getQuotes"
  /\ \/ \E d \in Dex : run' = [run EXCEPT ![w].pc = "setDex", ![w].dex = d]
     \/ /\ "dex" \in faults
        /\ run' = Goto(w, "hanging")
  /\ UNCHANGED <<faults, submission, db, pub, job, late, swaps>>

(* Both quotes arrive and selectBestDex picks a venue, or five seconds pass. *)
GetQuotes(w) ==
  /\ run[w].pc = "getQuotes"
  /\ \/ \E d \in Dex : run' = [run EXCEPT ![w].pc = "setDex", ![w].dex = d]
     \/ /\ "dex" \in faults
        /\ run' = Goto(w, Catch(w))
  /\ UNCHANGED <<faults, submission, db, pub, job, late, swaps>>

SetDex(w) ==
  /\ run[w].pc = "setDex"
  /\ Query(w, UpdateOrderRouting(db, run[w].order, run[w].dex), "setBuilding", Catch(w))

SetBuilding(w) ==
  /\ run[w].pc = "setBuilding"
  /\ Query(w, UpdateOrderStatus(db, run[w].order, "building"), "executeSwap", Catch(w))

(* The tolerances a swap may execute in: a bad fill needs the fault. *)
Fills == IF "slippage" \in faults THEN BOOLEAN ELSE {TRUE}

Executed(o, no, dex, within) ==
  [swaps EXCEPT ![o] = @ \cup {[no |-> no, dex |-> dex, within |-> within]}]

(* Mutant: the slippage check is dropped. *)
ExecuteSwapUnchecked(w) ==
  /\ run[w].pc = "executeSwap"
  /\ \E within \in Fills :
       /\ swaps' = Executed(run[w].order, run[w].no, run[w].dex, within)
       /\ run' = Goto(w, "setSubmitted")
  /\ UNCHANGED <<faults, submission, db, pub, job, late>>

(* Mutant: a swap that timed out is asked for again in place. *)
ExecuteSwapAgain(w) ==
  LET r == run[w] IN
  /\ r.pc = "executeSwap"
  /\ \/ /\ \E within \in Fills :
             /\ swaps' = Executed(r.order, r.no, r.dex, within)
             /\ run' = Goto(w, IF within THEN "setSubmitted" ELSE Catch(w))
        /\ UNCHANGED late
     \/ /\ "dex" \in faults
        /\ late' = late \cup {[order |-> r.order, no |-> r.no, dex |-> r.dex]}
        /\ UNCHANGED <<run, swaps>>
  /\ UNCHANGED <<faults, submission, db, pub, job>>

(* The swap executes and checkSlippage judges its price, or ten seconds    *)
(* pass first: withTimeout gives up, nothing cancels the swap.             *)
ExecuteSwap(w) ==
  LET r == run[w] IN
  /\ r.pc = "executeSwap"
  /\ \/ /\ \E within \in Fills :
             /\ swaps' = Executed(r.order, r.no, r.dex, within)
             /\ run' = Goto(w, IF within THEN "setSubmitted" ELSE Catch(w))
        /\ UNCHANGED late
     \/ /\ "dex" \in faults
        /\ late' = late \cup {[order |-> r.order, no |-> r.no, dex |-> r.dex]}
        /\ run' = Goto(w, Catch(w))
        /\ UNCHANGED swaps
  /\ UNCHANGED <<faults, submission, db, pub, job>>

SetSubmitted(w) ==
  /\ run[w].pc = "setSubmitted"
  /\ Query(w, UpdateOrderStatus(db, run[w].order, "submitted"), "setConfirmed", Catch(w))

(* amount_out is DECIMAL(18,9): an oversized amount makes the UPDATE throw. *)
SetConfirmed(w) ==
  /\ run[w].pc = "setConfirmed"
  /\ \/ /\ run[w].order \notin Oversized
        /\ Query(w, UpdateOrderConfirmed(db, run[w].order, run[w].no),
                 "publishConfirmed", Catch(w))
     \/ /\ run[w].order \in Oversized
        /\ run' = Goto(w, Catch(w))
        /\ UNCHANGED <<faults, submission, db, pub, job, late, swaps>>

(* Mutant: a failed CONFIRMED message is ignored. *)
PublishConfirmedBestEffort(w) ==
  /\ run[w].pc = "publishConfirmed"
  /\ PublishStatus(w, "confirmed", "complete", "complete")

(* Inside the try: a failed PUBLISH sends a confirmed order to Catch. *)
PublishConfirmed(w) ==
  /\ run[w].pc = "publishConfirmed"
  /\ PublishStatus(w, "confirmed", "complete", Catch(w))

(* Mutant: the DB failure of failOrder is swallowed. *)
FailOrderIgnoringErrors(w) ==
  /\ run[w].pc = "failOrder"
  /\ Query(w, UpdateOrderFailed(db, run[w].order), "publishFailed", "publishFailed")

(* In the catch block a second failure replaces the first and is thrown. *)
FailOrder(w) ==
  /\ run[w].pc = "failOrder"
  /\ Query(w, UpdateOrderFailed(db, run[w].order), "publishFailed", "reject")

PublishFailed(w) ==
  /\ run[w].pc = "publishFailed"
  /\ PublishStatus(w, "failed", "reject", "reject")

(* Mutant: the catch block enqueues the order again by itself. *)
PublishRetryEnqueueing(w) ==
  LET o == run[w].order IN
  /\ run[w].pc = "publishRetry"
  /\ pub' = Sent(o, "pending")
  /\ job' = [job EXCEPT ![o].state = "waiting", ![o].lock = 0]
  /\ run' = Goto(w, "reject")
  /\ UNCHANGED <<faults, submission, db, late, swaps>>

PublishRetry(w) ==
  /\ run[w].pc = "publishRetry"
  /\ PublishStatus(w, "pending", "reject", "reject")

-----------------------------------------------------------------------------
(* BullMQ, as the code uses it.  A job is finished only by the holder of   *)
(* its lock.                                                               *)

(* attempts: config.MAX_RETRIES in the queue's defaultJobOptions. *)
AttemptsLeftPlusOne(made) == made <= MaxRetries

AttemptsLeft(made) == made < MaxRetries

(* A slot takes a waiting job: the processor is called. *)
TakeJob(w, o) ==
  LET no == job[o].starts + 1 IN
  /\ run[w].pc = "idle"
  /\ job[o].state = "waiting"
  /\ job' = [job EXCEPT ![o].state = "active", ![o].starts = no, ![o].lock = no]
  /\ run' = [run EXCEPT ![w] = [pc |-> "publishRouting", order |-> o, no |-> no,
                                attempt |-> job[o].made, dex |-> "none"]]
  /\ UNCHANGED <<faults, submission, db, pub, late, swaps>>

(* What moveToFinished makes of the job of slot w: nothing without the lock. *)
Finished(w, state) ==
  LET o == run[w].order IN
  IF job[o].lock = run[w].no
  THEN [job EXCEPT ![o].state = state, ![o].made = @ + 1, ![o].lock = 0]
  ELSE job

(* The processor resolved. *)
Complete(w) ==
  /\ run[w].pc = "complete"
  /\ job' = Finished(w, "completed")
  /\ run' = [run EXCEPT ![w] = Idle]
  /\ UNCHANGED <<faults, submission, db, pub, late, swaps>>

(* The processor rejected: a retry after the backoff, or the end. *)
Reject(w) ==
  /\ run[w].pc = "reject"
  /\ job' = Finished(w, IF AttemptsLeft(job[run[w].order].made + 1)
                        THEN "delayed" ELSE "failed")
  /\ run' = [run EXCEPT ![w] = Idle]
  /\ UNCHANGED <<faults, submission, db, pub, late, swaps>>

(* The backoff of a delayed job is over. *)
Promote(o) ==
  /\ job[o].state = "delayed"
  /\ job' = [job EXCEPT ![o].state = "waiting"]
  /\ UNCHANGED <<faults, submission, db, pub, run, late, swaps>>

(* The lock of a live slot runs out: its process missed the renewals. *)
LockExpires(o) ==
  /\ "stall" \in faults
  /\ job[o].state = "active"
  /\ job[o].lock # 0
  /\ job' = [job EXCEPT ![o].lock = 0]
  /\ UNCHANGED <<faults, submission, db, pub, run, late, swaps>>

(* The stalled check finds an active job without a lock and requeues it,   *)
(* or fails it without calling the processor when that happened too often. *)
MoveStalled(o) ==
  LET stalls == job[o].stalls + 1 IN
  /\ job[o].state = "active"
  /\ job[o].lock = 0
  /\ job' = [job EXCEPT ![o].stalls = stalls,
                        ![o].state = IF stalls > MaxStalledCount
                                     THEN "failed" ELSE "waiting"]
  /\ UNCHANGED <<faults, submission, db, pub, run, late, swaps>>

-----------------------------------------------------------------------------
(* The environment *)

(* A swap that withTimeout gave up on executes after all. *)
LateSwap(l) ==
  /\ l \in late
  /\ late' = late \ {l}
  /\ \E within \in Fills : swaps' = Executed(l.order, l.no, l.dex, within)
  /\ UNCHANGED <<faults, submission, db, pub, job, run>>

Held(p, o) == \E c \in 1..Concurrency : /\ run[<<p, c>>].order = o
                                        /\ run[<<p, c>>].no = job[o].lock

Serving(p, o) == p = Api /\ submission[o] = "created"

(* Process p dies and is restarted: its slots and requests are gone, its   *)
(* locks run out.                                                          *)
Crash(p) ==
  /\ "crash" \in faults
  /\ \/ \E c \in 1..Concurrency : run[<<p, c>>].pc # "idle"
     \/ \E o \in Orders : Serving(p, o)
  /\ run' = [w \in Slots |-> IF w[1] = p THEN Idle ELSE run[w]]
  /\ job' = [o \in Orders |-> IF Held(p, o) THEN [job[o] EXCEPT !.lock = 0] ELSE job[o]]
  /\ submission' = [o \in Orders |-> IF Serving(p, o) THEN "rejected" ELSE submission[o]]
  /\ UNCHANGED <<faults, db, pub, late, swaps>>

-----------------------------------------------------------------------------
(* The specification *)

(* One step of the processor call of slot w, its settlement included. *)
SlotStep(w) ==
  \/ PublishRouting(w)
  \/ SetRouting(w)
  \/ GetQuotes(w)
  \/ SetDex(w)
  \/ SetBuilding(w)
  \/ ExecuteSwap(w)
  \/ SetSubmitted(w)
  \/ SetConfirmed(w)
  \/ PublishConfirmed(w)
  \/ FailOrder(w)
  \/ PublishFailed(w)
  \/ PublishRetry(w)
  \/ Complete(w)
  \/ Reject(w)

Next ==
  \/ \E o \in Orders : InsertOrder(o)
  \/ \E o \in Orders : EnqueueOrder(o)
  \/ \E w \in Slots : SlotStep(w)
  \/ \E w \in Slots, o \in Orders : TakeJob(w, o)
  \/ \E o \in Orders : Promote(o)
  \/ \E o \in Orders : LockExpires(o)
  \/ \E o \in Orders : MoveStalled(o)
  \/ \E l \in late : LateSwap(l)
  \/ \E p \in Processes : Crash(p)

(* A slot's awaits settle, BullMQ's timers fire, and the wait list is FIFO, *)
(* so that a waiting job is not passed over for ever.  Nothing is assumed   *)
(* of clients, of faults or of swaps that are late.                         *)
Fairness ==
  /\ \A w \in Slots : WF_vars(SlotStep(w))
  /\ \A o \in Orders : /\ SF_vars(\E w \in Slots : TakeJob(w, o))
                       /\ WF_vars(Promote(o))
                       /\ WF_vars(MoveStalled(o))

Spec == Init /\ [][Next]_vars /\ Fairness

-----------------------------------------------------------------------------
(* Properties.  Those that some fault defeats name the faults they bar; the *)
(* others hold whatever goes wrong.                                         *)

Without(kinds) == faults \cap kinds = {}

Busy(w) == run[w].pc # "idle"

(* A job exists only for an order whose row exists: the UPDATEs of the      *)
(* processor, which report a missing row by returning null that nobody      *)
(* reads, never miss.                                                       *)
JobHasRow == \A o \in Orders : job[o].state # "none" => Exists(db, o)

(* Retries, stalls, crashes and timeouts together execute at most           *)
(* MaxRetries + MaxStalledCount swaps for an order, each asked for by a     *)
(* start of its own: no start trades twice.                                 *)
SwapBudget ==
  \A o \in Orders :
    /\ Cardinality({s.no : s \in swaps[o]}) <= MaxRetries + MaxStalledCount
    /\ \A s, t \in swaps[o] : s.no = t.no => s = t

(* A confirmed row names a swap of that order which did execute, within the *)
(* tolerance, and (unless a second processor was let loose by a stall) on   *)
(* the venue the row records.                                               *)
ConfirmedTrade ==
  \A o \in Orders : db[o].status = "confirmed" =>
    \E s \in swaps[o] : /\ s.no = db[o].tx
                        /\ s.within
                        /\ Without({"stall"}) => s.dex = db[o].dex

(* A job BullMQ calls completed leaves the order confirmed, and confirmed   *)
(* is the last thing its subscribers were told.                             *)
CompletedConfirmed ==
  Without({"stall"}) =>
    \A o \in Orders : job[o].state = "completed" =>
      db[o].status = "confirmed" /\ pub[o] = "confirmed"

(* No subscriber hears of an end that the database has not recorded.        *)
NoPrematureNews == \A o \in Orders : pub[o] \in Terminal => pub[o] \in db[o].log

(* An order is marked failed only by its last attempt.                      *)
FailedMeansExhausted ==
  \A o \in Orders : "failed" \in db[o].log => job[o].made + 1 >= MaxRetries

(* Without lost locks, an order has at most one processor at a time, and it *)
(* holds the lock of the active job.                                        *)
SoleProcessor ==
  Without({"stall"}) =>
    \A w \in Slots : Busy(w) =>
      job[run[w].order].state = "active" /\ job[run[w].order].lock = run[w].no

(* Without crashes and lost locks, failed is final: no later attempt moves  *)
(* the order on.                                                            *)
FailedIsFinal ==
  [][Without({"crash", "stall"}) =>
       \A o \in Orders : db[o].status = "failed" => db'[o].status = "failed"]_vars

(* Every enqueued job is settled for good in the end, whether its attempts  *)
(* fail or its processors die or lose it.                                   *)
JobSettles ==
  \A o \in Orders :
    job[o].state # "none" ~> [](job[o].state \in {"completed", "failed"})

(* As long as the database answers and no process dies or stalls, every     *)
(* enqueued order ends for good in a terminal status, whatever messages are *)
(* lost, DEXes are slow and swaps miss the tolerance.                       *)
OrderSettles ==
  \A o \in Orders :
    Without({"db", "crash", "stall"}) /\ job[o].state # "none"
      ~> [](db[o].status \in Terminal)

-----------------------------------------------------------------------------
(* The refinement of OrderLifecycle: what an order amounts to once slots,   *)
(* queue, statements and messages are forgotten.                            *)

(* Every status that is no end is an order still open. *)
Outcome(status) == IF status \in {"absent"} \cup Terminal THEN status ELSE "open"

RecordOf(row) == [status |-> Outcome(row.status), trade |-> row.tx, ends |-> row.log]

LiveStarts(o) == {run[w].no : w \in {v \in Slots : run[v].order = o}}

LateStarts(o) == {l.no : l \in {m \in late : m.order = o}}

Traded(o) == {[by |-> s.no, within |-> s.within] : s \in swaps[o]}

Lifecycle == INSTANCE OrderLifecycle WITH
  Budget   <- MaxRetries + MaxStalledCount,
  record   <- [o \in Orders |-> RecordOf(db[o])],
  attempts <- [o \in Orders |-> job[o].starts],
  live     <- [o \in Orders |-> LiveStarts(o)],
  pending  <- [o \in Orders |-> LateStarts(o)],
  trades   <- [o \in Orders |-> Traded(o)],
  closed   <- [o \in Orders |-> job[o].state \in {"completed", "failed"}],
  news     <- [o \in Orders |-> IF pub[o] = "none" THEN "none" ELSE Outcome(pub[o])]

(* Whatever fails, the execution is one that OrderLifecycle allows: each    *)
(* start trades at most once, only a start under way writes and speaks, a   *)
(* confirmation names the confirming start's own good swap, and a job that  *)
(* is over starts no processor.                                             *)
ImplementsLifecycle == Lifecycle!Spec

-----------------------------------------------------------------------------
(* The inductive strengthening, first part: rows, jobs, starts and swaps.   *)
(* It carries JobHasRow and SwapBudget and does not need the second part.   *)

(* A job comes after its row, and nothing happens to it before submitOrder  *)
(* is done.                                                                 *)
RowThenJob ==
  \A o \in Orders : /\ submission[o] \in {"new", "created"} => job[o] = NoJob
                    /\ submission[o] = "created" => Exists(db, o)

(* The ledger of a job: each of its starts has become an attempt or a stall *)
(* or is under way, a job is only started again within both limits, and     *)
(* only an active job is locked.                                            *)
Ledger ==
  \A o \in Orders :
    /\ job[o].starts = job[o].made + job[o].stalls
                        + (IF job[o].state = "active" THEN 1 ELSE 0)
    /\ job[o].state \in {"none", "waiting", "active", "delayed"} =>
         job[o].made < MaxRetries /\ job[o].stalls <= MaxStalledCount
    /\ job[o].starts <= MaxRetries + MaxStalledCount
    /\ job[o].lock # 0 => job[o].state = "active"

(* Every processor call is a start of its own. *)
RunsAreStarts ==
  \A w \in Slots : Busy(w) =>
    /\ run[w].no \in 1..job[run[w].order].starts
    /\ \A v \in Slots \ {w} :
         Busy(v) /\ run[v].order = run[w].order => run[v].no # run[w].no

(* A swap was asked for by a start, which asked for no other. *)
SwapsAreStarts ==
  \A o \in Orders : \A s \in swaps[o] :
    /\ s.no \in 1..job[o].starts
    /\ \A t \in swaps[o] : s.no = t.no => s = t

(* So was a swap that is late, and it has not executed yet. *)
LateAreStarts ==
  \A l \in late :
    /\ l.no \in 1..job[l.order].starts
    /\ \A m \in late : l.order = m.order /\ l.no = m.no => l = m
    /\ \A s \in swaps[l.order] : s.no # l.no

(* A call that has not come to its swap has asked for none. *)
AsksOnce ==
  \A w \in Slots : run[w].pc \in BeforeSwap =>
    /\ \A s \in swaps[run[w].order] : s.no # run[w].no
    /\ \A l \in late : l.order = run[w].order => l.no # run[w].no

(* The venue is chosen before it is recorded and used. *)
DexChosen ==
  \A w \in Slots :
    run[w].pc \in {"setDex", "setBuilding", "executeSwap"} => run[w].dex \in Dex

StartsInv == /\ TypeOK
             /\ DexChosen
             /\ RowThenJob
             /\ JobHasRow
             /\ Ledger
             /\ RunsAreStarts
             /\ SwapsAreStarts
             /\ LateAreStarts
             /\ AsksOnce

-----------------------------------------------------------------------------
(* The inductive strengthening, second part: what the row, the channel and  *)
(* the job say of each other, given how far each call has come.             *)

(* A row is blank until it is inserted, and pending until there is a job.   *)
NothingEarly ==
  \A o \in Orders :
    /\ submission[o] = "new" => db[o] = AbsentRow
    /\ job[o].state = "none" => /\ job[o] = NoJob
                                /\ db[o].status \in {"absent", "pending"}

(* The status and its log are set together. *)
EndsLogged == \A o \in Orders : db[o].status \in Terminal => db[o].status \in db[o].log

(* A call behind its swap has a good swap of its own until it confirms, has *)
(* recorded an end before it announces it, and fails its order only when it *)
(* is the last attempt.                                                     *)
CallsKnow ==
  \A w \in Slots : Busy(w) =>
    LET r == run[w] IN
    /\ r.attempt <= job[r.order].made
    /\ r.pc \in {"failOrder", "publishFailed"} => IsFinalAttempt(w)
    /\ r.pc \in {"setSubmitted", "setConfirmed"} =>
         [no |-> r.no, dex |-> r.dex, within |-> TRUE] \in swaps[r.order]
    /\ r.pc = "publishConfirmed" => "confirmed" \in db[r.order].log
    /\ r.pc = "publishFailed" => "failed" \in db[r.order].log

(* As long as nobody else works on its order, a call finds the row and the  *)
(* channel as it left them.                                                 *)
CallsAlone ==
  Without({"stall"}) =>
    \A w \in Slots : Busy(w) =>
      LET r == run[w] IN
      /\ r.pc \in {"setBuilding", "executeSwap", "setSubmitted", "setConfirmed"} =>
           db[r.order].dex = r.dex
      /\ r.pc \in {"publishConfirmed", "complete"} => db[r.order].status = "confirmed"
      /\ r.pc = "complete" => pub[r.order] = "confirmed"

(* Where neither a crash nor a stall frees a lock, an active job has one,   *)
(* and a failed order has no job to start and no call that goes on.         *)
FailedSettled ==
  Without({"crash", "stall"}) =>
    /\ \A o \in Orders : job[o].state = "active" => job[o].lock # 0
    /\ \A o \in Orders : db[o].status = "failed" =>
         /\ job[o].state \in {"active", "failed"}
         /\ \A w \in Slots : run[w].order = o => run[w].pc \in {"publishFailed", "reject"}

IInv == /\ StartsInv
        /\ NothingEarly
        /\ EndsLogged
        /\ CallsKnow
        /\ SoleProcessor
        /\ CallsAlone
        /\ FailedSettled
        /\ NoPrematureNews
        /\ FailedMeansExhausted
        /\ ConfirmedTrade
        /\ CompletedConfirmed

-----------------------------------------------------------------------------
(* What the documents say of the program and its code does not keep.        *)

(* docs/WEBSOCKET_GUIDE.md calls the confirmed update final.  The PUBLISH   *)
(* of it is inside the try: when it fails, the order is processed again.    *)
ConfirmedIsFinal ==
  [][\A o \in Orders : db[o].status = "confirmed" => db'[o].status = "confirmed"]_vars

(* README.md: jobs survive crashes; docs/WEBSOCKET_GUIDE.md: an error at    *)
(* any stage ends in failed.  A job that stalled too often is failed by     *)
(* BullMQ alone: no catch block runs and the row stays where it was.        *)
FailureIsRecorded ==
  \A o \in Orders : job[o].state = "failed" => db[o].status \in Terminal
=============================================================================
