--------------------------- MODULE ProcessLifecycle ---------------------------
(***************************************************************************)
(* The start and the shutdown of one process: app.ts, which serves HTTP    *)
(* and runs a worker, or worker.ts, which runs a worker only.  Each signal *)
(* runs shutdown once, so that two of them run it side by side, against    *)
(* the jobs and requests under way and, in worker.ts, against the start.   *)
(*                                                                         *)
(* What can go wrong is fixed for a behaviour by the variable faults:      *)
(*   start  a step of the start rejects: no Redis, no database, a used port*)
(*   close  a step of shutdown rejects                                     *)
(*   early  a signal reaches worker.ts before its worker runs              *)
(* WebSocket sessions are left to WebSocketSessions.                       *)
(***************************************************************************)
EXTENDS Naturals

CONSTANTS
  Signals,      \* the signals that may arrive
  Concurrency,  \* config.QUEUE_CONCURRENCY
  MaxRequests,  \* bounds the requests served at once
  Scenarios     \* the fault sets to consider

FaultKinds == {"start", "close", "early"}

ASSUME LifecycleAssumption ==
  /\ Concurrency \in Nat \ {0}
  /\ MaxRequests \in Nat
  /\ Scenarios \subseteq SUBSET FaultKinds

VARIABLES
  faults,    \* the fault kinds of this behaviour, never changed
  role,      \* which program runs: app.ts or worker.ts
  stage,     \* the step of start that is awaited, "up" once it is over
  http,      \* the HTTP server
  worker,    \* BullMQ's Worker
  queue,     \* the connection of orderQueue
  pool,      \* the pg pool
  redis,     \* the three ioredis clients
  jobs,      \* processor calls under way
  requests,  \* requests under way
  shutdown,  \* [Signals -> the step of its run of shutdown that is awaited]
  exit       \* how the process ended

vars == <<faults, role, stage, http, worker, queue, pool, redis, jobs, requests,
          shutdown, exit>>

-----------------------------------------------------------------------------
(* Types *)

(* The awaits of start.  Only app.ts has the last two. *)
Stage == {"connectRedis", "connectDatabase", "runMigrations", "listen", "up"}

(* The steps of shutdown, in order. *)
Step == {"none", "closeApp", "closeWorker", "closeQueue", "disconnectDatabase",
         "disconnectRedis", "exit"}

TypeOK ==
  /\ faults \in SUBSET FaultKinds
  /\ role \in {"app", "worker"}
  /\ stage \in Stage
  /\ http \in {"down", "open", "closing", "closed"}
  /\ worker \in {"none", "running", "closing", "closed"}
  /\ queue \in {"open", "closed"}
  /\ pool \in {"open", "ended"}
  /\ redis \in {"down", "open", "closed"}
  /\ jobs \in 0..Concurrency
  /\ requests \in 0..MaxRequests
  /\ shutdown \in [Signals -> Step]
  /\ exit \in {"running", "clean", "error", "killed"}

(* The queue and the pool connect when they are created, with the modules. *)
Init ==
  /\ faults \in Scenarios
  /\ role \in {"app", "worker"}
  /\ stage = "connectRedis"
  /\ http = "down" /\ worker = "none"
  /\ queue = "open" /\ pool = "open" /\ redis = "down"
  /\ jobs = 0 /\ requests = 0
  /\ shutdown = [s \in Signals |-> "none"]
  /\ exit = "running"

Running == exit = "running"

-----------------------------------------------------------------------------
(* start *)

(* An awaited step of start is done and the next one called. *)
Proceed(from, to) ==
  /\ Running /\ stage = from
  /\ stage' = to
  /\ UNCHANGED <<faults, role, queue, pool, jobs, requests, shutdown, exit>>

ConnectRedis ==
  /\ Proceed("connectRedis", "connectDatabase")
  /\ redis' = "open"
  /\ UNCHANGED <<http, worker>>

(* In worker.ts the worker is created in the same turn. *)
ConnectDatabase ==
  /\ \/ /\ role = "app"
        /\ Proceed("connectDatabase", "runMigrations")
        /\ UNCHANGED worker
     \/ /\ role = "worker"
        /\ Proceed("connectDatabase", "up")
        /\ worker' = "running"
  /\ UNCHANGED <<http, redis>>

(* That the objects exist already is no error. *)
RunMigrations ==
  /\ Proceed("runMigrations", "listen")
  /\ UNCHANGED <<http, worker, redis>>

(* In app.ts the worker and the signal handlers follow in the same turn. *)
Listen ==
  /\ Proceed("listen", "up")
  /\ http' = "open" /\ worker' = "running"
  /\ UNCHANGED redis

(* A step of start rejects: exit(1).  A pool that has ended gives out no connection that *)
(* was not asked for before.                                                *)
StartFails ==
  /\ Running /\ stage # "up"
  /\ \/ "start" \in faults
     \/ stage = "connectDatabase" /\ pool = "ended"
  /\ exit' = "error"
  /\ UNCHANGED <<faults, role, stage, http, worker, queue, pool, redis, jobs,
                 requests, shutdown>>

-----------------------------------------------------------------------------
(* The work *)

(* Mutant: the worker takes jobs without a limit. *)
TakeJobUnlimited ==
  /\ Running /\ worker = "running"
  /\ jobs' = jobs + 1
  /\ UNCHANGED <<faults, role, stage, http, worker, queue, pool, redis, requests,
                 shutdown, exit>>

TakeJob ==
  /\ Running /\ worker = "running"
  /\ jobs < Concurrency
  /\ jobs' = jobs + 1
  /\ UNCHANGED <<faults, role, stage, http, worker, queue, pool, redis, requests,
                 shutdown, exit>>

FinishJob ==
  /\ Running /\ jobs > 0
  /\ jobs' = jobs - 1
  /\ UNCHANGED <<faults, role, stage, http, worker, queue, pool, redis, requests,
                 shutdown, exit>>

Receive ==
  /\ Running /\ http = "open"
  /\ requests < MaxRequests
  /\ requests' = requests + 1
  /\ UNCHANGED <<faults, role, stage, http, worker, queue, pool, redis, jobs,
                 shutdown, exit>>

Respond ==
  /\ Running /\ requests > 0
  /\ requests' = requests - 1
  /\ UNCHANGED <<faults, role, stage, http, worker, queue, pool, redis, jobs,
                 shutdown, exit>>

-----------------------------------------------------------------------------
(* shutdown: each step is called when the one before it has resolved.       *)

At(s, step) == Running /\ shutdown[s] = step

Goto(s, step) == shutdown' = [shutdown EXCEPT ![s] = step]

(* A signal.  app.ts listens for it once it is up; worker.ts always does.   *)
Signal(s) ==
  /\ At(s, "none")
  /\ \/ /\ role = "app" /\ stage = "up"
        /\ Goto(s, "closeApp")
        /\ http' = IF http = "open" THEN "closing" ELSE http
        /\ UNCHANGED <<worker, exit>>
     \/ /\ role = "app" /\ stage # "up"
        /\ exit' = "killed"
        /\ UNCHANGED <<shutdown, http, worker>>
     \/ /\ role = "worker" /\ stage = "up"
        /\ Goto(s, "closeWorker")
        /\ worker' = IF worker = "running" THEN "closing" ELSE worker
        /\ UNCHANGED <<http, exit>>
     \/ /\ role = "worker" /\ stage # "up" /\ "early" \in faults
        /\ Goto(s, "closeQueue")
        /\ UNCHANGED <<http, worker, exit>>
  /\ UNCHANGED <<faults, role, stage, queue, pool, redis, jobs, requests>>

(* Mutant: the worker goes on taking jobs until it has none. *)
CloseAppStillFetching(s) ==
  /\ At(s, "closeApp") /\ requests = 0
  /\ http' = "closed"
  /\ Goto(s, "closeWorker")
  /\ UNCHANGED <<faults, role, stage, worker, queue, pool, redis, jobs, requests, exit>>

(* app.close: no request is admitted any more, those under way are answered. *)
CloseApp(s) ==
  /\ At(s, "closeApp") /\ requests = 0
  /\ http' = "closed"
  /\ worker' = IF worker = "running" THEN "closing" ELSE worker
  /\ Goto(s, "closeWorker")
  /\ UNCHANGED <<faults, role, stage, queue, pool, redis, jobs, requests, exit>>

(* Mutant: the active jobs are not waited for. *)
CloseWorkerForced(s) ==
  /\ At(s, "closeWorker")
  /\ worker' = "closed"
  /\ Goto(s, "closeQueue")
  /\ UNCHANGED <<faults, role, stage, http, queue, pool, redis, jobs, requests, exit>>

(* Mutant: the worker is only paused. *)
CloseWorkerPausing(s) ==
  /\ At(s, "closeWorker") /\ jobs = 0
  /\ worker' = "running"
  /\ Goto(s, "closeQueue")
  /\ UNCHANGED <<faults, role, stage, http, queue, pool, redis, jobs, requests, exit>>

(* worker.close: no job is taken any more, the active ones end.  A second   *)
(* call waits for the first.                                                *)
CloseWorker(s) ==
  /\ At(s, "closeWorker") /\ jobs = 0
  /\ worker' = "closed"
  /\ Goto(s, "closeQueue")
  /\ UNCHANGED <<faults, role, stage, http, queue, pool, redis, jobs, requests, exit>>

CloseQueue(s) ==
  /\ At(s, "closeQueue")
  /\ queue' = "closed"
  /\ Goto(s, "disconnectDatabase")
  /\ UNCHANGED <<faults, role, stage, http, worker, pool, redis, jobs, requests, exit>>

(* disconnectDatabase and disconnectRedis catch what the clients throw, on a *)
(* second call for example.                                                  *)
DisconnectDatabase(s) ==
  /\ At(s, "disconnectDatabase")
  /\ pool' = "ended"
  /\ Goto(s, "disconnectRedis")
  /\ UNCHANGED <<faults, role, stage, http, worker, queue, redis, jobs, requests, exit>>

DisconnectRedis(s) ==
  /\ At(s, "disconnectRedis")
  /\ redis' = "closed"
  /\ Goto(s, "exit")
  /\ UNCHANGED <<faults, role, stage, http, worker, queue, pool, jobs, requests, exit>>

Exit(s) ==
  /\ At(s, "exit")
  /\ exit' = "clean"
  /\ UNCHANGED <<faults, role, stage, http, worker, queue, pool, redis, jobs,
                 requests, shutdown>>

(* app.close, closeWorker or closeQueue rejects: exit(1). *)
ShutdownFails(s) ==
  /\ "close" \in faults
  /\ Running /\ shutdown[s] \in {"closeApp", "closeWorker", "closeQueue"}
  /\ exit' = "error"
  /\ UNCHANGED <<faults, role, stage, http, worker, queue, pool, redis, jobs,
                 requests, shutdown>>

-----------------------------------------------------------------------------
(* The specification *)

Shutdown(s) ==
  \/ CloseApp(s)
  \/ CloseWorker(s)
  \/ CloseQueue(s)
  \/ DisconnectDatabase(s)
  \/ DisconnectRedis(s)
  \/ Exit(s)

Start == ConnectRedis \/ ConnectDatabase \/ RunMigrations \/ Listen

Next ==
  \/ Start
  \/ StartFails
  \/ TakeJob
  \/ FinishJob
  \/ Receive
  \/ Respond
  \/ \E s \in Signals : Signal(s)
  \/ \E s \in Signals : Shutdown(s)
  \/ \E s \in Signals : ShutdownFails(s)

(* Jobs and requests end: their awaits have limits (OrderExecution).  The   *)
(* calls of shutdown resolve once what they wait for is over.               *)
Fairness ==
  /\ WF_vars(FinishJob) /\ WF_vars(Respond)
  /\ \A s \in Signals : WF_vars(Shutdown(s))

Spec == Init /\ [][Next]_vars /\ Fairness

-----------------------------------------------------------------------------
(* Properties.  Those that some fault defeats name the faults they bar; the *)
(* others hold whatever goes wrong.                                         *)

Without(kinds) == faults \cap kinds = {}

(* No job and no request ever finds a connection closed under it, however   *)
(* many shutdowns run side by side: unless the signal comes to worker.ts    *)
(* before there is a worker to close.                                       *)
NothingBroken ==
  Without({"early"}) /\ Running =>
    /\ jobs > 0 \/ requests > 0 => pool = "open" /\ redis = "open"
    /\ requests > 0 => queue = "open"

(* A process that says exit(0) has dropped no work, and left no worker that *)
(* would take some.                                                         *)
CleanExit ==
  Without({"early"}) /\ exit = "clean" =>
    jobs = 0 /\ requests = 0 /\ worker = "closed"

(* A shutdown that begins comes to an end, whatever else happens: no step   *)
(* waits for ever for work that keeps coming, and two shutdowns do not wait *)
(* for each other.                                                          *)
ShutdownEnds == \A s \in Signals : shutdown[s] # "none" ~> exit # "running"

-----------------------------------------------------------------------------
(* The inductive strengthening: what is closed, and in which order.         *)

(* worker.ts has no HTTP server to start, to close or to serve with. *)
WorkerHasNoServer ==
  role = "worker" => /\ stage \notin {"runMigrations", "listen"}
                     /\ http = "down"
                     /\ \A s \in Signals : shutdown[s] # "closeApp"

(* Nothing is served and nothing shut down before start is over, by when    *)
(* Redis is connected.                                                      *)
StartedFirst ==
  /\ stage # "connectRedis" => redis # "down"
  /\ stage # "up" => /\ worker = "none" /\ http = "down"
                     /\ \A s \in Signals : shutdown[s] = "none"

(* What takes no work any more, or did not yet, has none. *)
ClosedIsIdle ==
  /\ worker \in {"none", "closed"} => jobs = 0
  /\ http \in {"down", "closed"} => requests = 0

(* Each run of shutdown has closed what it has passed: the server before    *)
(* the worker, both before the connections.                                 *)
ClosedInOrder ==
  /\ \A s \in Signals :
       /\ shutdown[s] \in Step \ {"none", "closeApp"} => http \in {"down", "closed"}
       /\ shutdown[s] \in Step \ {"none", "closeApp", "closeWorker"} => worker = "closed"
  /\ queue = "closed" \/ pool = "ended" \/ redis = "closed" \/ exit = "clean" =>
       worker = "closed" /\ http \in {"down", "closed"}

IInv == /\ TypeOK
        /\ WorkerHasNoServer
        /\ Without({"early"}) => StartedFirst /\ ClosedIsIdle /\ ClosedInOrder
=============================================================================
