------------------------ MODULE ProcessLifecycleProofs ------------------------
(***************************************************************************)
(* The safety of ProcessLifecycle, for any number of signals, job slots    *)
(* and requests and every set of faults.                                   *)
(*                                                                         *)
(* The invariant is IInv: unless a signal comes to worker.ts too early,    *)
(* everything is closed in order, and what is closed has no work left.     *)
(***************************************************************************)
EXTENDS ProcessLifecycle, TLAPS

(* The promise of a behaviour without the early signal. *)
Ordered == StartedFirst /\ ClosedIsIdle /\ ClosedInOrder

(* The start of a process. *)
LEMMA InitInv ==
  ASSUME Init
  PROVE  IInv
<1>1. TypeOK
  BY LifecycleAssumption DEF Init, TypeOK, LifecycleAssumption, Stage, Step
<1>2. WorkerHasNoServer /\ Ordered
  BY DEF Init, WorkerHasNoServer, Ordered, StartedFirst, ClosedIsIdle, ClosedInOrder
<1> QED BY <1>1, <1>2 DEF IInv, Ordered

(* A step of start finds no shutdown, and creates what it starts. *)
LEMMA StartInv ==
  ASSUME IInv, Start
  PROVE  IInv'
<1>1. stage # "up" /\ UNCHANGED <<faults, role, queue, pool, jobs, requests, shutdown, exit>>
  BY DEF Start, ConnectRedis, ConnectDatabase, RunMigrations, Listen, Proceed
<1>2. TypeOK'
  BY DEF IInv, TypeOK, Stage, Start, ConnectRedis, ConnectDatabase, RunMigrations, Listen,
         Proceed
<1>3. ASSUME Without({"early"})
      PROVE  Ordered'
  <2>1. Ordered /\ worker = "none" /\ http = "down" /\ jobs = 0 /\ requests = 0
        /\ \A s \in Signals : shutdown[s] = "none"
    BY <1>1, <1>3 DEF IInv, Ordered, StartedFirst, ClosedIsIdle
  <2>2. StartedFirst'
    BY <1>1, <2>1 DEF Ordered, StartedFirst, Start, ConnectRedis, ConnectDatabase,
                      RunMigrations, Listen, Proceed
  <2>3. ClosedIsIdle'
    BY <1>1, <2>1
       DEF Ordered, IInv, WorkerHasNoServer, ClosedIsIdle, Start, ConnectRedis, ConnectDatabase,
                      RunMigrations, Listen, Proceed
  <2>4. ClosedInOrder'
    <3>1. queue # "closed" /\ pool # "ended" /\ redis # "closed" /\ exit # "clean"
      BY <2>1 DEF Ordered, ClosedInOrder
    <3>2. redis' \in {redis, "open"}
      BY DEF Start, ConnectRedis, ConnectDatabase, RunMigrations, Listen
    <3> QED BY <1>1, <2>1, <3>1, <3>2 DEF ClosedInOrder
  <2> QED BY <2>2, <2>3, <2>4 DEF Ordered
<1>4. WorkerHasNoServer'
  BY <1>1 DEF IInv, WorkerHasNoServer, Start, ConnectRedis, ConnectDatabase, RunMigrations,
              Listen, Proceed
<1> QED BY <1>1, <1>2, <1>3, <1>4 DEF IInv, Ordered, Without

(* Work is only begun where it is still taken. *)
LEMMA WorkInv ==
  ASSUME IInv, TakeJob \/ FinishJob \/ Receive \/ Respond
  PROVE  IInv'
<1>1. UNCHANGED <<faults, role, stage, http, worker, queue, pool, redis, shutdown, exit>>
  BY DEF TakeJob, FinishJob, Receive, Respond
<1>2. TypeOK'
  BY <1>1, LifecycleAssumption
     DEF IInv, TypeOK, LifecycleAssumption, TakeJob, FinishJob, Receive, Respond
<1>3. ASSUME Without({"early"})
      PROVE  Ordered'
  <2>1. Ordered
    BY <1>3 DEF IInv, Ordered
  <2>2. ClosedIsIdle'
    BY <1>1, <2>1 DEF Ordered, ClosedIsIdle, TakeJob, FinishJob, Receive, Respond
  <2>3. StartedFirst' /\ ClosedInOrder'
    BY <1>1, <2>1 DEF Ordered, StartedFirst, ClosedInOrder
  <2> QED BY <2>2, <2>3 DEF Ordered
<1>4. WorkerHasNoServer'
  BY <1>1 DEF IInv, WorkerHasNoServer
<1> QED BY <1>1, <1>2, <1>3, <1>4 DEF IInv, Ordered, Without

(* A signal begins a shutdown of its own. *)
LEMMA SignalInv ==
  ASSUME IInv, NEW s \in Signals, Signal(s)
  PROVE  IInv'
<1>1. UNCHANGED <<faults, role, stage, queue, pool, redis, jobs, requests>>
  BY DEF Signal
<1>2. TypeOK'
  BY <1>1 DEF IInv, TypeOK, Signal, Goto, Step
<1>3. ASSUME Without({"early"})
      PROVE  Ordered'
  <2>1. Ordered /\ "early" \notin faults /\ shutdown \in [Signals -> Step]
    BY <1>3 DEF IInv, Ordered, Without, TypeOK
  <2>2. /\ worker' = worker \/ (worker = "running" /\ worker' = "closing")
        /\ http' = http \/ (http = "open" /\ http' = "closing")
        /\ exit' = exit \/ exit' = "killed"
        /\ \A q \in Signals \ {s} : shutdown'[q] = shutdown[q]
        /\ \/ stage = "up" /\ shutdown'[s] = "closeApp"
           \/ stage = "up" /\ role = "worker" /\ shutdown'[s] = "closeWorker"
           \/ shutdown' = shutdown
        /\ stage # "up" => worker' = worker /\ http' = http
    BY <2>1 DEF Signal, Goto
  <2>3. StartedFirst'
    BY <1>1, <2>1, <2>2 DEF Ordered, StartedFirst
  <2>4. ClosedIsIdle'
    BY <1>1, <2>1, <2>2 DEF Ordered, ClosedIsIdle
  <2>5. ClosedInOrder'
    BY <1>1, <2>1, <2>2 DEF IInv, WorkerHasNoServer, Ordered, ClosedInOrder
  <2> QED BY <2>3, <2>4, <2>5 DEF Ordered
<1>4. WorkerHasNoServer'
  BY <1>1 DEF IInv, TypeOK, WorkerHasNoServer, Signal, Goto
<1> QED BY <1>1, <1>2, <1>3, <1>4 DEF IInv, Ordered, Without

(* Each step of shutdown closes what has no work, before what it needs. *)
LEMMA ShutdownInv ==
  ASSUME IInv, NEW s \in Signals, Shutdown(s)
  PROVE  IInv'
<1>1. /\ UNCHANGED <<faults, role, stage, jobs, requests>>
      /\ shutdown[s] \in Step \ {"none"}
  BY DEF Shutdown, At, Step, CloseApp, CloseWorker, CloseQueue, DisconnectDatabase,
         DisconnectRedis, Exit
<1>2. TypeOK'
  BY <1>1 DEF IInv, TypeOK, Step, Goto, Shutdown, CloseApp, CloseWorker, CloseQueue,
              DisconnectDatabase, DisconnectRedis, Exit
<1>3. ASSUME Without({"early"})
      PROVE  Ordered'
  <2>1. Ordered /\ shutdown \in [Signals -> Step] /\ stage = "up" /\ redis # "down"
    BY <1>1, <1>3 DEF IInv, Ordered, StartedFirst, TypeOK
  <2>2. /\ \A q \in Signals \ {s} : shutdown'[q] = shutdown[q]
        /\ redis' \in {redis, "closed"}
    BY <2>1 DEF Shutdown, Goto, CloseApp, CloseWorker, CloseQueue, DisconnectDatabase,
                DisconnectRedis, Exit
  <2>3. StartedFirst'
    BY <1>1, <2>1, <2>2 DEF StartedFirst
  <2>4. CASE CloseApp(s)
    <3>1. shutdown'[s] = "closeWorker" /\ http' = "closed" /\ requests = 0
          /\ worker' = (IF worker = "running" THEN "closing" ELSE worker)
          /\ UNCHANGED <<queue, pool, redis, exit>>
      BY <2>1, <2>4 DEF CloseApp, Goto
    <3>2. ClosedIsIdle'
      BY <1>1, <2>1, <2>4, <3>1 DEF Ordered, ClosedIsIdle, ClosedInOrder, CloseApp, At
    <3>3. worker = "closed" => worker' = "closed"
      BY <3>1
    <3>4. redis' = "closed" => redis = "closed"
      BY <3>1
    <3>5. ClosedInOrder'
      BY <2>1, <2>2, <3>1, <3>3, <3>4 DEF Ordered, ClosedInOrder
    <3> QED BY <2>3, <3>2, <3>5 DEF Ordered
  <2>5. CASE CloseWorker(s)
    <3>1. shutdown'[s] = "closeQueue" /\ worker' = "closed" /\ jobs = 0
          /\ shutdown[s] = "closeWorker" /\ UNCHANGED <<http, queue, pool, redis, exit>>
      BY <2>1, <2>5 DEF CloseWorker, Goto, At
    <3>2. http \in {"down", "closed"}
      BY <2>1, <3>1 DEF Ordered, ClosedInOrder, Step
    <3> QED BY <1>1, <2>1, <2>2, <2>3, <3>1, <3>2 DEF Ordered, ClosedIsIdle, ClosedInOrder
  <2>6. CASE CloseQueue(s) \/ DisconnectDatabase(s) \/ DisconnectRedis(s) \/ Exit(s)
    <3>1. /\ shutdown[s] \in {"closeQueue", "disconnectDatabase", "disconnectRedis", "exit"}
          /\ shutdown'[s] \in {"disconnectDatabase", "disconnectRedis", "exit"}
          /\ UNCHANGED <<http, worker>>
      BY <2>1, <2>6 DEF CloseQueue, DisconnectDatabase, DisconnectRedis, Exit, Goto, At
    <3>2. worker = "closed" /\ http \in {"down", "closed"}
      BY <2>1, <3>1 DEF Ordered, ClosedInOrder, Step
    <3> QED BY <1>1, <2>1, <2>2, <2>3, <3>1, <3>2 DEF Ordered, ClosedIsIdle, ClosedInOrder
  <2> QED BY <2>4, <2>5, <2>6 DEF Shutdown
<1>4. WorkerHasNoServer'
  BY <1>1 DEF IInv, TypeOK, WorkerHasNoServer, Goto, At, Shutdown, CloseApp, CloseWorker,
              CloseQueue, DisconnectDatabase, DisconnectRedis, Exit
<1> QED BY <1>1, <1>2, <1>3, <1>4 DEF IInv, Ordered, Without

(* A step that rejects ends the process and leaves the rest as it is. *)
LEMMA FailInv ==
  ASSUME IInv, StartFails \/ \E s \in Signals : ShutdownFails(s)
  PROVE  IInv'
<1>1. /\ UNCHANGED <<faults, role, stage, http, worker, queue, pool, redis, jobs, requests,
                     shutdown>>
      /\ exit' = "error"
  BY DEF StartFails, ShutdownFails
<1>2. TypeOK'
  BY <1>1 DEF IInv, TypeOK
<1>3. Ordered => Ordered'
  BY <1>1 DEF Ordered, StartedFirst, ClosedIsIdle, ClosedInOrder
<1>4. WorkerHasNoServer'
  BY <1>1 DEF IInv, WorkerHasNoServer
<1> QED BY <1>1, <1>2, <1>3, <1>4 DEF IInv, Ordered, Without

(* Every step keeps the invariant. *)
LEMMA NextInv ==
  ASSUME IInv, [Next]_vars
  PROVE  IInv'
<1>1. CASE UNCHANGED vars
  <2>1. TypeOK' /\ WorkerHasNoServer' /\ (Ordered => Ordered')
    BY <1>1 DEF vars, IInv, TypeOK, WorkerHasNoServer, Ordered, StartedFirst, ClosedIsIdle,
                ClosedInOrder
  <2> QED BY <1>1, <2>1 DEF vars, IInv, Ordered, Without
<1> QED BY <1>1, StartInv, WorkInv, SignalInv, ShutdownInv, FailInv DEF Next

(* The start of a process, its work and its shutdowns keep their order.     *)
THEOREM Invariance == Spec => []IInv
<1>1. Init => IInv
  BY InitInv
<1>2. IInv /\ [Next]_vars => IInv'
  BY NextInv
<1> QED BY <1>1, <1>2, PTL DEF Spec

(* The state of a process has the declared types: it never runs more jobs   *)
(* than it has slots.                                                       *)
THEOREM TypeCorrect == Spec => []TypeOK
<1>1. IInv => TypeOK
  BY DEF IInv
<1> QED BY <1>1, Invariance, PTL

(* However many signals come, and whatever fails, no job and no request     *)
(* finds a connection closed under it, unless worker.ts is told to stop     *)
(* before it has a worker.                                                  *)
THEOREM NothingIsBroken == Spec => []NothingBroken
<1>1. IInv => NothingBroken
  <2> SUFFICES ASSUME IInv, Without({"early"}), jobs > 0 \/ requests > 0
               PROVE  pool = "open" /\ redis = "open" /\ queue = "open"
    BY DEF NothingBroken
  <2>1. worker \notin {"none", "closed"} \/ http \notin {"down", "closed"}
    BY DEF IInv, ClosedIsIdle
  <2>2. stage = "up" /\ redis # "down"
    BY <2>1 DEF IInv, StartedFirst
  <2> QED BY <2>1, <2>2 DEF IInv, ClosedInOrder, TypeOK
<1> QED BY <1>1, Invariance, PTL

(* A process that says exit(0) has dropped no work and left no worker that  *)
(* would take some, with the same exception.                                *)
THEOREM ExitIsClean == Spec => []CleanExit
<1>1. IInv => CleanExit
  BY DEF IInv, ClosedIsIdle, ClosedInOrder, CleanExit
<1> QED BY <1>1, Invariance, PTL
=============================================================================
