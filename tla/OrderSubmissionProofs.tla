------------------------ MODULE OrderSubmissionProofs ------------------------
(***************************************************************************)
(* The safety of OrderSubmission, for any number of requests, keys and     *)
(* bodies, any threshold and every set of faults.                          *)
(*                                                                         *)
(* The invariant is IInv.  A step of a request changes nothing of another  *)
(* request and takes nothing away that was created: ServeInv says once     *)
(* what is left to show of the request itself (Sound), and each step of    *)
(* the chain then has a lemma that shows it.                               *)
(***************************************************************************)
EXTENDS OrderSubmission, FiniteSetTheorems, TLAPS

-----------------------------------------------------------------------------
(* How a step leaves its request *)

(* Request r is now as given, but for its header Retry-After; its key and   *)
(* its body stay, as all others do.                                         *)
Becomes(r, pc, noted, code, order) ==
  /\ req' \in [Requests -> Request]
  /\ \A q \in Requests \ {r} : req'[q] = req[q]
  /\ req'[r].pc = pc /\ req'[r].noted = noted
  /\ req'[r].code = code /\ req'[r].order = order
  /\ req'[r].key = req[r].key /\ req'[r].body = req[r].body

(* Going on changes the label only. *)
LEMMA GotoBecomes ==
  ASSUME req \in [Requests -> Request], NEW r \in Requests, NEW label \in Label,
         Goto(r, label)
  PROVE  /\ Becomes(r, label, req[r].noted, req[r].code, req[r].order)
         /\ req'[r].retryAfter = req[r].retryAfter
<1>1. req[r] \in Request
  OBVIOUS
<1>2. req' = [req EXCEPT ![r] = [req[r] EXCEPT !.pc = label]]
  BY DEF Goto
<1>3. [req[r] EXCEPT !.pc = label] \in Request
  BY <1>1 DEF Request
<1> QED BY <1>1, <1>2, <1>3 DEF Becomes, Request

(* An answer ends the request. *)
LEMMA AnswerBecomes ==
  ASSUME req \in [Requests -> Request], NEW r \in Requests, NEW code \in Code,
         NEW order \in Requests \cup {NoOrder}, Answer(r, code, order)
  PROVE  /\ Becomes(r, "done", req[r].noted, code, order)
         /\ req'[r].retryAfter = req[r].retryAfter
<1> DEFINE new == [req[r] EXCEPT !.pc = "done", !.code = code, !.order = order]
<1>1. req[r] \in Request
  OBVIOUS
<1>2. req' = [req EXCEPT ![r] = new]
  BY DEF Answer
<1>3. /\ new \in Request /\ new.pc = "done" /\ new.code = code /\ new.order = order
      /\ new.noted = req[r].noted /\ new.retryAfter = req[r].retryAfter
      /\ new.key = req[r].key /\ new.body = req[r].body
  BY <1>1 DEF Request, Label
<1> QED BY <1>2, <1>3 DEF Becomes

(* A refusal that asks to come back later ends it too, and names no order.  *)
LEMMA AskToRetryBecomes ==
  ASSUME req \in [Requests -> Request], NEW r \in Requests, NEW code \in Code,
         AskToRetry(r, code)
  PROVE  Becomes(r, "done", req[r].noted, code, req[r].order)
<1> DEFINE new == [req[r] EXCEPT !.pc = "done", !.code = code, !.retryAfter = TRUE]
<1>1. req[r] \in Request
  OBVIOUS
<1>2. req' = [req EXCEPT ![r] = new]
  BY DEF AskToRetry
<1>3. /\ new \in Request /\ new.pc = "done" /\ new.code = code /\ new.retryAfter = TRUE
      /\ new.noted = req[r].noted /\ new.order = req[r].order
      /\ new.key = req[r].key /\ new.body = req[r].body
  BY <1>1 DEF Request, Label
<1> QED BY <1>2, <1>3 DEF Becomes

(* The handler refuses an invalid body, and goes on with the others. *)
LEMMA HandledBecomes ==
  ASSUME req \in [Requests -> Request], NEW r \in Requests, NEW noted \in BOOLEAN,
         req' = Handled(r, noted)
  PROVE  /\ \/ Becomes(r, "done", noted, 400, req[r].order)
            \/ Becomes(r, "create", noted, req[r].code, req[r].order)
         /\ req'[r].retryAfter = req[r].retryAfter
<1> DEFINE refused == [req[r] EXCEPT !.pc = "done", !.noted = noted, !.code = 400]
           admitted == [req[r] EXCEPT !.pc = "create", !.noted = noted]
<1>1. req[r] \in Request
  OBVIOUS
<1>2. /\ refused \in Request /\ refused.pc = "done" /\ refused.noted = noted
      /\ refused.code = 400 /\ refused.retryAfter = req[r].retryAfter
      /\ refused.order = req[r].order
      /\ refused.key = req[r].key /\ refused.body = req[r].body
  <2>1. ASSUME NEW code \in Code
        PROVE  LET new == [req[r] EXCEPT !.pc = "done", !.noted = noted, !.code = code] IN
               /\ new \in Request /\ new.pc = "done" /\ new.noted = noted
               /\ new.code = code /\ new.retryAfter = req[r].retryAfter
               /\ new.order = req[r].order
               /\ new.key = req[r].key /\ new.body = req[r].body
    BY <1>1 DEF Request, Label
  <2>2. 400 \in Code
    BY DEF Code
  <2> QED BY <2>1, <2>2
<1>3. /\ admitted \in Request /\ admitted.pc = "create" /\ admitted.noted = noted
      /\ admitted.code = req[r].code /\ admitted.retryAfter = req[r].retryAfter
      /\ admitted.order = req[r].order
      /\ admitted.key = req[r].key /\ admitted.body = req[r].body
  BY <1>1 DEF Request, Label
<1>4. req' = [req EXCEPT ![r] = refused] \/ req' = [req EXCEPT ![r] = admitted]
  <2>1. CASE req[r].body \in Invalid
    <3>1. req' = [req EXCEPT ![r].pc = "done", ![r].noted = noted, ![r].code = 400]
      BY <2>1 DEF Handled
    <3>2. \A q \in Requests \ {r} : req'[q] = req[q]
      BY <3>1
    <3>3. req'[r] = refused
      BY <3>1
    <3>4. req' = [q \in Requests |-> req'[q]]
      BY <3>1
    <3> QED BY <3>2, <3>3, <3>4
  <2>2. CASE req[r].body \notin Invalid
    <3>1. req' = [req EXCEPT ![r] = admitted]
      BY <2>2 DEF Handled
    <3> QED BY <3>1
  <2> QED BY <2>1, <2>2
<1> HIDE DEF refused, admitted
<1> QED BY <1>2, <1>3, <1>4 DEF Becomes

(* The requests under way are finitely many, and so are the jobs. *)
LEMMA Finite ==
  ASSUME TypeOK
  PROVE  /\ IsFiniteSet(InFlight) /\ IsFiniteSet(Admitted)
         /\ IsFiniteSet(waiting) /\ IsFiniteSet(waiting \ taken)
<1>1. IsFiniteSet(Requests)
  BY SubmissionAssumption DEF SubmissionAssumption
<1>2. \A S \in SUBSET Requests : IsFiniteSet(S)
  BY <1>1, FS_Subset
<1> QED BY <1>2 DEF TypeOK, InFlight, Admitted

-----------------------------------------------------------------------------
(* What a step of a request has to answer for *)

(* The parts of the invariant that are about one request. *)
Sound(r) ==
  /\ IF req[r].pc = "new" THEN req[r] = Unsent ELSE req[r].body \in Bodies
  /\ req[r].pc # "done" => req[r].code = 0 /\ ~req[r].retryAfter
  /\ req[r].noted => req[r].key # NoKey
  /\ r \in rows => req[r].pc \in {"enqueue", "store", "done"}
  /\ r \in jobs => r \in rows /\ req[r].pc \in {"store", "done"}
  /\ req[r].pc = "enqueue" => r \in rows
  /\ req[r].pc = "store" => r \in jobs /\ req[r].noted
  /\ req[r].code = 200 => /\ req[r].order \in rows \cap jobs
                          /\ req[req[r].order].body = req[r].body
                          /\ req[r].order # r => req[req[r].order].key = req[r].key
  /\ req[r].code = 409 => \E o \in jobs : req[o].key = req[r].key /\ req[o].body # req[r].body
  /\ Refused(r) => r \notin rows /\ r \notin jobs
  /\ r \in rows \ jobs =>
       \/ req[r].pc = "enqueue"
       \/ /\ req[r].pc = "done"
          /\ \/ req[r].code = 503 /\ ~Without({"db", "redis"})
             \/ req[r].code = 0 /\ ~Without({"crash"})

(* The part that is about its key. *)
Keyed(r) ==
  req[r].key # NoKey =>
    /\ r \in jobs => Forgotten(r) \/ req[r].pc = "store" \/ cache[req[r].key].order = r
    /\ req[r].pc \in {"create", "enqueue", "store"} =>
         IF req[r].noted THEN cache[req[r].key] = NoEntry ELSE "redis" \in faults

(* The invariant, request by request. *)
LEMMA Parts ==
  ASSUME IInv, NEW r \in Requests
  PROVE  /\ Sound(r)
         /\ Without({"overlap", "expire", "crash"}) => Keyed(r)
<1>1. Sound(r)
  BY DEF IInv, Sequenced, AnswerIsBacked, ConflictIsReal, RefusalCreatesNothing,
         NoOrphanRow, Sound
<1>2. Without({"overlap", "expire", "crash"}) => Keyed(r)
  BY DEF IInv, KeysHeld, Keyed
<1> QED BY <1>1, <1>2

(* And back, for the next state. *)
LEMMA Collected ==
  ASSUME TypeOK', \A r \in Requests : Sound(r)', EntriesBacked', KeysHeld',
         InFlightBounded', QueueOvershoot'
  PROVE  IInv'
<1>1. Sequenced'
  BY DEF Sequenced, Sound
<1>2. AnswerIsBacked'
  BY DEF AnswerIsBacked, Sound
<1>3. ConflictIsReal' /\ RefusalCreatesNothing'
  BY DEF ConflictIsReal, RefusalCreatesNothing, Sound
<1>4. NoOrphanRow'
  BY DEF NoOrphanRow, Sound, TypeOK
<1> QED BY <1>1, <1>2, <1>3, <1>4 DEF IInv

(* Request r moves on, and no other: what was created stays.  Only a stored *)
(* job changes what a key stands for.                                       *)
Moves(r) ==
  /\ req[r].pc \notin {"new", "done"}
  /\ Becomes(r, req'[r].pc, req'[r].noted, req'[r].code, req'[r].order)
  /\ req'[r].pc # "new"
  /\ rows \subseteq rows' /\ rows' \subseteq rows \cup {r}
  /\ jobs \subseteq jobs' /\ jobs' \subseteq jobs \cup {r}
  /\ waiting \subseteq waiting' /\ waiting' \subseteq waiting \cup (jobs' \cap {r})
  /\ cache' = cache \/ (cache' = Stored(r) /\ req[r].pc = "store")
  /\ UNCHANGED <<faults, taken>>

(* A request that moves on keeps the invariant of all others, and of what   *)
(* is stored.                                                               *)
LEMMA ServeInv ==
  ASSUME IInv, NEW r \in Requests, Moves(r), Sound(r)', QueueOvershoot',
         Without({"overlap", "expire", "crash"}) => Keyed(r)'
  PROVE  IInv'
<1>1. /\ req' \in [Requests -> Request] /\ \A q \in Requests \ {r} : req'[q] = req[q]
      /\ \A q \in Requests : req'[q].key = req[q].key /\ req'[q].body = req[q].body
  BY DEF Moves, Becomes
<1>2. \A kinds : Without(kinds)' <=> Without(kinds)
  BY DEF Moves, Without
<1>3. rows \subseteq Requests /\ jobs \subseteq Requests /\ NoOrder \notin Requests
      /\ NoKey \notin Keys
  BY SubmissionAssumption DEF IInv, TypeOK, SubmissionAssumption
<1>4. cache' # cache => /\ req[r].key \in Keys /\ req[r].body \in Bodies /\ r \in jobs
                        /\ cache' = [cache EXCEPT ![req[r].key]
                                       = [order |-> r, body |-> req[r].body]]
  BY Parts DEF IInv, TypeOK, Request, Moves, Stored, Sound
<1>5. TypeOK'
  <2>1. cache' \in [Keys -> Entry \cup {NoEntry}]
    BY <1>4 DEF IInv, TypeOK, Entry
  <2> QED BY <1>1, <2>1 DEF IInv, TypeOK, Moves
<1>6. \A q \in Requests : Sound(q)'
  <2> SUFFICES ASSUME NEW q \in Requests \ {r}
               PROVE  Sound(q)'
    OBVIOUS
  <2>1. Sound(q) /\ req'[q] = req[q]
    BY <1>1, Parts
  <2>2. /\ q \in rows' <=> q \in rows
        /\ q \in jobs' <=> q \in jobs
    BY DEF Moves
  <2>3. req[q].code = 200 => /\ req[q].order \in rows' \cap jobs'
                             /\ req'[req[q].order].body = req[q].body
                             /\ req[q].order # q => req'[req[q].order].key = req[q].key
    BY <1>1, <1>3, <2>1 DEF Sound, Moves
  <2>4. req[q].code = 409 =>
          \E o \in jobs' : req'[o].key = req[q].key /\ req'[o].body # req[q].body
    BY <1>1, <1>3, <2>1 DEF Sound, Moves
  <2> QED BY <1>2, <2>1, <2>2, <2>3, <2>4 DEF Sound, Refused
<1>7. EntriesBacked'
  <2> SUFFICES ASSUME NEW k \in Keys, cache'[k] # NoEntry
               PROVE  /\ cache'[k].order \in jobs'
                      /\ req'[cache'[k].order].key = k
                      /\ req'[cache'[k].order].body = cache'[k].body
    BY DEF EntriesBacked
  <2>1. CASE cache'[k] = cache[k]
    BY <1>1, <1>3, <2>1 DEF IInv, EntriesBacked, Moves
  <2>2. CASE cache'[k] # cache[k]
    <3>1. k = req[r].key /\ r \in jobs /\ cache'[k] = [order |-> r, body |-> req[r].body]
      BY <1>4, <2>2 DEF IInv, TypeOK
    <3> QED BY <1>1, <3>1 DEF Moves
  <2> QED BY <2>1, <2>2
<1>8. InFlight' \subseteq InFlight /\ r \in InFlight
  BY <1>1 DEF InFlight, Moves
<1>9. InFlightBounded'
  <2>1. Cardinality(InFlight') <= Cardinality(InFlight)
    BY <1>8, Finite, FS_Subset DEF IInv
  <2>2. Cardinality(InFlight) \in Nat /\ Cardinality(InFlight') \in Nat
    BY <1>5, Finite, FS_CardinalityType, FS_Subset, <1>8 DEF IInv
  <2> QED BY <2>1, <2>2, SubmissionAssumption DEF IInv, InFlightBounded, SubmissionAssumption
<1>10. KeysHeld'
  <2> SUFFICES ASSUME Without({"overlap", "expire", "crash"})
               PROVE  /\ \A p, q \in InFlight' :
                           req'[p].key = req'[q].key /\ req'[p].key # NoKey => p = q
                      /\ \A q \in Requests : Keyed(q)'
    BY <1>2, <1>3, <1>5 DEF KeysHeld, Keyed, Forgotten, TypeOK
  <2>1. \A p, q \in InFlight : req[p].key = req[q].key /\ req[p].key # NoKey => p = q
    BY DEF IInv, KeysHeld
  <2>2. \A p, q \in InFlight' : req'[p].key = req'[q].key /\ req'[p].key # NoKey => p = q
    BY <1>1, <1>8, <2>1 DEF InFlight
  <2>3. ASSUME NEW q \in Requests \ {r}
        PROVE  Keyed(q)'
    <3>1. Keyed(q) /\ req'[q] = req[q] /\ (q \in jobs' <=> q \in jobs) /\ faults' = faults
      BY <1>1, Parts DEF Moves
    <3>2. CASE q \in InFlight \/ req[q].key # req[r].key \/ cache' = cache
      <4>1. req[q].key # NoKey => cache'[req[q].key] = cache[req[q].key]
        BY <1>3, <1>4, <1>8, <2>1, <3>2 DEF IInv, TypeOK, Request
      <4> QED BY <3>1, <4>1 DEF Keyed, Forgotten
    <3>3. CASE q \notin InFlight /\ req[q].key = req[r].key /\ cache' # cache
      <4>1. cache[req[r].key] = NoEntry /\ req[r].key # NoKey
        <5>1. req[r].pc = "store" /\ Keyed(r) /\ req[r].noted
          BY <3>3, Parts DEF Moves, Sound
        <5> QED BY <1>3, <1>4, <3>3, <5>1 DEF Keyed
      <4>2. q \in jobs => Forgotten(q)
        <5>1. NoEntry.order # q
          BY <1>3 DEF NoEntry
        <5>2. req[q].pc # "store"
          BY <3>3 DEF InFlight
        <5> QED BY <3>1, <3>3, <4>1, <5>1, <5>2 DEF Keyed
      <4>3. req[q].pc \notin {"create", "enqueue", "store"}
        BY <3>3 DEF InFlight
      <4> QED BY <3>1, <4>2, <4>3 DEF Keyed, Forgotten
    <3> QED BY <3>2, <3>3
  <2> QED BY <2>2, <2>3
<1> QED BY <1>5, <1>6, <1>7, <1>9, <1>10, Collected

-----------------------------------------------------------------------------
(* The depth of the queue *)

(* Nobody is admitted and nothing new is queued. *)
LEMMA NoneAdmitted ==
  ASSUME IInv, UNCHANGED faults,
         Admitted' \subseteq Admitted, waiting' \ taken' \subseteq waiting \ taken
  PROVE  QueueOvershoot'
<1>1. /\ Cardinality(Admitted') <= Cardinality(Admitted)
      /\ Cardinality(waiting' \ taken') <= Cardinality(waiting \ taken)
  BY Finite, FS_Subset DEF IInv
<1>2. /\ Cardinality(Admitted') \in Nat /\ Cardinality(Admitted) \in Nat
      /\ Cardinality(waiting' \ taken') \in Nat /\ Cardinality(waiting \ taken) \in Nat
  BY Finite, FS_Subset, FS_CardinalityType DEF IInv
<1> QED BY <1>1, <1>2, SubmissionAssumption
        DEF IInv, QueueOvershoot, Without, SubmissionAssumption

(* A request is admitted: the wait list was within the threshold, and not   *)
(* more requests are admitted than are under way.                           *)
LEMMA AdmittedBelow ==
  ASSUME IInv, ~Overloaded, UNCHANGED <<waiting, taken>>, Admitted' \subseteq InFlight
  PROVE  QueueOvershoot'
<1>1. /\ Cardinality(Admitted') <= Cardinality(InFlight)
      /\ Cardinality(waiting \ taken) <= Cardinality(waiting)
  BY Finite, FS_Subset DEF IInv
<1>2. /\ Cardinality(Admitted') \in Nat /\ Cardinality(InFlight) \in Nat
      /\ Cardinality(waiting) \in Nat /\ Cardinality(waiting \ taken) \in Nat
  BY Finite, FS_Subset, FS_CardinalityType DEF IInv
<1> QED BY <1>1, <1>2, SubmissionAssumption
        DEF IInv, Overloaded, InFlightBounded, QueueOvershoot, SubmissionAssumption

(* An admitted request becomes a job on the wait list. *)
LEMMA AdmittedQueued ==
  ASSUME IInv, UNCHANGED <<faults, taken>>, NEW r \in Admitted,
         Admitted' \subseteq Admitted \ {r}, waiting' \subseteq waiting \cup {r}
  PROVE  QueueOvershoot'
<1>1. IsFiniteSet(Admitted) /\ IsFiniteSet(waiting \ taken)
  BY Finite DEF IInv
<1>2. /\ IsFiniteSet(Admitted \ {r})
      /\ Cardinality(Admitted \ {r}) = Cardinality(Admitted) - 1
  BY <1>1, FS_RemoveElement
<1>3. /\ IsFiniteSet((waiting \ taken) \cup {r})
      /\ Cardinality((waiting \ taken) \cup {r}) <= Cardinality(waiting \ taken) + 1
  <2>1. Cardinality(waiting \ taken) \in Nat
    BY <1>1, FS_CardinalityType
  <2>2. /\ IsFiniteSet((waiting \ taken) \cup {r})
        /\ Cardinality((waiting \ taken) \cup {r}) =
             IF r \in waiting \ taken THEN Cardinality(waiting \ taken)
             ELSE Cardinality(waiting \ taken) + 1
    BY <1>1, FS_AddElement
  <2> QED BY <2>1, <2>2
<1>4. Cardinality(Admitted') <= Cardinality(Admitted \ {r}) /\ IsFiniteSet(Admitted')
  BY <1>2, FS_Subset
<1>5. waiting' \ taken' \subseteq (waiting \ taken) \cup {r}
  OBVIOUS
<1>6. /\ Cardinality(waiting' \ taken') <= Cardinality((waiting \ taken) \cup {r})
      /\ IsFiniteSet(waiting' \ taken')
  BY <1>3, <1>5, FS_Subset
<1>7. /\ Cardinality(Admitted) \in Nat /\ Cardinality(Admitted') \in Nat
      /\ Cardinality(waiting \ taken) \in Nat /\ Cardinality(waiting' \ taken') \in Nat
      /\ Cardinality((waiting \ taken) \cup {r}) \in Nat
  BY <1>1, <1>3, <1>4, <1>6, FS_CardinalityType
<1> QED BY <1>2, <1>3, <1>4, <1>6, <1>7, SubmissionAssumption
        DEF IInv, QueueOvershoot, Without, SubmissionAssumption

-----------------------------------------------------------------------------
(* The steps of a request *)

(* A preHandler lets the request on. *)
LEMMA PassInv ==
  ASSUME IInv, NEW r \in Requests, NEW label \in {"queueDepth", "queueHealth", "idempotency"},
         req[r].pc \in {"rateLimit", "queueDepth", "queueHealth"}, Goto(r, label),
         UNCHANGED <<faults, cache, rows, jobs, taken, waiting>>,
         label = "idempotency" => ~Overloaded \/ "redis" \in faults
  PROVE  IInv'
<1>1. /\ Becomes(r, label, req[r].noted, req[r].code, req[r].order)
      /\ req'[r].retryAfter = req[r].retryAfter
  BY GotoBecomes DEF IInv, TypeOK, Label
<1>2. Moves(r)
  BY <1>1 DEF Becomes, Moves
<1>3. Sound(r) /\ req[r].code = 0
  BY Parts DEF Sound
<1>4. Sound(r)'
  BY <1>1, <1>3 DEF Becomes, Sound, Refused
<1>5. Keyed(r)'
  BY <1>1, <1>3 DEF Becomes, Sound, Keyed
<1>6. QueueOvershoot'
  <2>1. CASE label # "idempotency"
    <3>1. Admitted' \subseteq Admitted
      BY <1>1, <2>1 DEF Becomes, Admitted
    <3> QED BY <3>1, NoneAdmitted
  <2>2. CASE ~Overloaded
    <3>1. Admitted' \subseteq InFlight
      BY <1>1 DEF Becomes, Admitted, InFlight
    <3> QED BY <2>2, <3>1, AdmittedBelow
  <2>3. CASE "redis" \in faults
    BY <2>3 DEF QueueOvershoot, Without
  <2> QED BY <2>1, <2>2, <2>3
<1> QED BY <1>2, <1>4, <1>5, <1>6, ServeInv

(* A request is answered before it has a job: by what is stored under its   *)
(* key, or by a refusal, and by a row at most when the INSERT failed.       *)
LEMMA EndInv ==
  ASSUME IInv, NEW r \in Requests, NEW code \in Code \ {0},
         NEW order \in Requests \cup {NoOrder},
         req[r].pc \in {"rateLimit", "queueHealth", "idempotency", "create"},
         Becomes(r, "done", req[r].noted, code, order),
         \/ rows' = rows
         \/ rows' = rows \cup {r} /\ code = 503 /\ ~req'[r].retryAfter /\ "db" \in faults,
         UNCHANGED <<faults, cache, jobs, taken, waiting>>,
         code = 200 => /\ order \in jobs
                       /\ req[order].key = req[r].key /\ req[order].body = req[r].body,
         code = 409 => \E o \in jobs : req[o].key = req[r].key /\ req[o].body # req[r].body
  PROVE  IInv'
<1>1. Becomes(r, "done", req[r].noted, code, order)
  OBVIOUS
<1>2. Moves(r)
  BY <1>1 DEF Becomes, Moves
<1>3. Sound(r) /\ r \notin rows /\ r \notin jobs /\ jobs \subseteq Requests
      /\ \A q \in jobs : q \in rows
  BY Parts DEF Sound, IInv, TypeOK
<1>4. /\ \A q \in Requests : req'[q].key = req[q].key /\ req'[q].body = req[q].body
      /\ req'[r].pc = "done" /\ req'[r].code = code /\ req'[r].order = order
      /\ req'[r].noted = req[r].noted
  BY <1>1 DEF Becomes
<1>5. Sound(r)'
  <2>1. req[r].body \in Bodies
    BY <1>3 DEF Sound
  <2>2. code = 200 => /\ order \in rows' \cap jobs'
                      /\ req'[order].body = req'[r].body /\ req'[order].key = req'[r].key
    BY <1>3, <1>4
  <2>3. code = 409 => \E o \in jobs' : req'[o].key = req'[r].key /\ req'[o].body # req'[r].body
    BY <1>3, <1>4
  <2>4. r \in rows' => code = 503 /\ ~req'[r].retryAfter /\ "db" \in faults
    BY <1>3
  <2>5. "db" \in faults => ~Without({"db", "redis"})'
    BY DEF Without
  <2>6. r \notin jobs' /\ (Refused(r)' => r \notin rows')
    BY <1>3, <1>4, <2>4 DEF Refused
  <2> QED BY <1>3, <1>4, <2>1, <2>2, <2>3, <2>4, <2>5, <2>6 DEF Sound
<1>6. Keyed(r)'
  BY <1>3, <1>4 DEF Keyed
<1>7. Admitted' \subseteq Admitted
  BY <1>1 DEF Becomes, Admitted
<1> QED BY <1>2, <1>5, <1>6, <1>7, NoneAdmitted, ServeInv

(* The handler takes a request whose key is not known, or not asked for. *)
LEMMA HandledInv ==
  ASSUME IInv, NEW r \in Requests, NEW noted \in BOOLEAN, req[r].pc = "idempotency",
         req' = Handled(r, noted), UNCHANGED <<faults, cache, rows, jobs, taken, waiting>>,
         noted => req[r].key # NoKey /\ cache[req[r].key] = NoEntry,
         ~noted => req[r].key = NoKey \/ "redis" \in faults
  PROVE  IInv'
<1>1. /\ \/ Becomes(r, "done", noted, 400, req[r].order)
         \/ Becomes(r, "create", noted, req[r].code, req[r].order)
      /\ req'[r].retryAfter = req[r].retryAfter
  BY HandledBecomes DEF IInv, TypeOK
<1>2. Moves(r)
  BY <1>1 DEF Becomes, Moves
<1>3. /\ Sound(r) /\ req[r].code = 0 /\ ~req[r].retryAfter
      /\ r \notin rows /\ r \notin jobs /\ req[r].body \in Bodies
  BY Parts DEF Sound
<1>4. /\ req'[r].key = req[r].key /\ req'[r].body = req[r].body /\ req'[r].noted = noted
      /\ ~req'[r].retryAfter
      /\ \/ req'[r].pc = "done" /\ req'[r].code = 400
         \/ req'[r].pc = "create" /\ req'[r].code = 0
  BY <1>1, <1>3 DEF Becomes
<1>5. Sound(r)'
  BY <1>3, <1>4 DEF Sound, Refused
<1>6. Without({"overlap", "expire", "crash"}) => Keyed(r)'
  BY <1>3, <1>4 DEF Keyed
<1>7. Admitted' \subseteq Admitted
  BY <1>1 DEF Becomes, Admitted
<1> QED BY <1>2, <1>5, <1>6, <1>7, NoneAdmitted, ServeInv

(* The row of a request that goes on to its job. *)
LEMMA CreateInv ==
  ASSUME IInv, NEW r \in Requests, req[r].pc = "create", Goto(r, "enqueue"),
         rows' = rows \cup {r}, UNCHANGED <<faults, cache, jobs, taken, waiting>>
  PROVE  IInv'
<1>1. /\ Becomes(r, "enqueue", req[r].noted, req[r].code, req[r].order)
      /\ req'[r].retryAfter = req[r].retryAfter
  BY GotoBecomes DEF IInv, TypeOK, Label
<1>2. Moves(r)
  BY <1>1 DEF Becomes, Moves
<1>3. Sound(r) /\ req[r].code = 0 /\ r \notin jobs
  BY Parts DEF Sound
<1>4. Sound(r)'
  BY <1>1, <1>3 DEF Becomes, Sound, Refused
<1>5. Without({"overlap", "expire", "crash"}) => Keyed(r)'
  BY <1>1, <1>3, Parts DEF Becomes, Keyed
<1>6. Admitted' \subseteq Admitted
  BY <1>1 DEF Becomes, Admitted
<1> QED BY <1>2, <1>4, <1>5, <1>6, NoneAdmitted, ServeInv

(* The job of a request, added perhaps without an answer. *)
LEMMA EnqueueInv ==
  ASSUME IInv, NEW r \in Requests, EnqueueOrder(r)
  PROVE  IInv'
<1>1. /\ req[r].pc = "enqueue" /\ UNCHANGED <<faults, cache, rows, taken>>
      /\ \/ jobs' = jobs \cup {r} /\ waiting' = waiting \cup {r}
         \/ jobs' = jobs /\ waiting' = waiting /\ "redis" \in faults
      /\ \/ Goto(r, "store") /\ req[r].noted /\ jobs' = jobs \cup {r}
         \/ Answer(r, 200, r) /\ ~req[r].noted /\ jobs' = jobs \cup {r}
         \/ Answer(r, 503, NoOrder) /\ "redis" \in faults
  BY DEF EnqueueOrder, Submitted
<1>2. Sound(r) /\ req[r].code = 0 /\ ~req[r].retryAfter /\ r \in rows /\ r \notin jobs
  BY <1>1, Parts DEF Sound
<1>3. /\ \/ Becomes(r, "store", req[r].noted, 0, req[r].order) /\ req[r].noted /\ r \in jobs'
         \/ Becomes(r, "done", req[r].noted, 200, r) /\ ~req[r].noted /\ r \in jobs'
         \/ Becomes(r, "done", req[r].noted, 503, NoOrder) /\ "redis" \in faults
      /\ ~req'[r].retryAfter
  <2>1. req \in [Requests -> Request] /\ req[r].noted \in BOOLEAN
    BY DEF IInv, TypeOK, Request
  <2>2. 200 \in Code /\ 503 \in Code /\ "store" \in Label
    BY DEF Code, Label
  <2>3. CASE Goto(r, "store") /\ req[r].noted /\ jobs' = jobs \cup {r}
    BY <1>2, <2>1, <2>2, <2>3, GotoBecomes
  <2>4. CASE Answer(r, 200, r) /\ ~req[r].noted /\ jobs' = jobs \cup {r}
    BY <1>2, <2>1, <2>2, <2>4, AnswerBecomes
  <2>5. CASE Answer(r, 503, NoOrder) /\ "redis" \in faults
    BY <1>2, <2>1, <2>2, <2>5, AnswerBecomes
  <2> QED BY <1>1, <2>3, <2>4, <2>5
<1>4. Moves(r)
  BY <1>1, <1>3 DEF Becomes, Moves
<1>5. Sound(r)'
  <2>1. /\ req'[r].key = req[r].key /\ req'[r].body = req[r].body
        /\ req'[r].noted = req[r].noted /\ ~req'[r].retryAfter
        /\ \/ req'[r].pc = "store" /\ req[r].noted /\ req'[r].code = 0 /\ r \in jobs'
           \/ req'[r].pc = "done" /\ req'[r].code = 200 /\ req'[r].order = r /\ r \in jobs'
           \/ req'[r].pc = "done" /\ req'[r].code = 503 /\ "redis" \in faults
    BY <1>3 DEF Becomes
  <2>2. /\ req[r].noted => req[r].key # NoKey
        /\ req[r].body \in Bodies
    BY <1>1, <1>2 DEF Sound
  <2>3. "redis" \in faults => ~Without({"db", "redis"})'
    BY <1>1 DEF Without
  <2>4. ~Refused(r)'
    BY <2>1 DEF Refused
  <2> QED BY <1>1, <1>2, <2>1, <2>2, <2>3, <2>4 DEF Sound
<1>6. Without({"overlap", "expire", "crash"}) => Keyed(r)'
  <2> SUFFICES ASSUME Without({"overlap", "expire", "crash"}), req[r].key # NoKey
               PROVE  Keyed(r)'
    BY <1>3 DEF Keyed, Becomes
  <2>1. IF req[r].noted THEN cache[req[r].key] = NoEntry ELSE "redis" \in faults
    BY <1>1, Parts DEF Keyed
  <2>2. /\ req'[r].key = req[r].key /\ req'[r].noted = req[r].noted
        /\ \/ req'[r].pc = "store" /\ req[r].noted
           \/ req'[r].pc = "done" /\ ~req[r].noted
           \/ req'[r].pc = "done" /\ req'[r].code = 503 /\ "redis" \in faults
    BY <1>3 DEF Becomes
  <2> QED BY <1>1, <2>1, <2>2 DEF Keyed, Forgotten
<1>7. QueueOvershoot'
  <2>1. r \in Admitted /\ Admitted' \subseteq Admitted \ {r}
    BY <1>1, <1>3 DEF Becomes, Admitted
  <2> QED BY <1>1, <2>1, AdmittedQueued
<1> QED BY <1>4, <1>5, <1>6, <1>7, ServeInv

(* The order is stored under the key of its request. *)
LEMMA StoreInv ==
  ASSUME IInv, NEW r \in Requests, StoreResult(r)
  PROVE  IInv'
<1>1. /\ req[r].pc = "store" /\ UNCHANGED <<faults, rows, jobs, taken, waiting>>
      /\ \/ cache' = Stored(r) /\ Answer(r, 200, r)
         \/ /\ cache' \in {cache, Stored(r)} /\ Answer(r, 503, NoOrder)
            /\ "redis" \in faults
  BY DEF StoreResult
<1>2. /\ Sound(r) /\ r \in rows /\ r \in jobs /\ req[r].noted /\ req[r].key # NoKey
      /\ ~req[r].retryAfter
  BY <1>1, Parts DEF Sound
<1>3. /\ \/ Becomes(r, "done", req[r].noted, 200, r) /\ cache' = Stored(r)
         \/ Becomes(r, "done", req[r].noted, 503, NoOrder) /\ "redis" \in faults
      /\ ~req'[r].retryAfter
  <2>1. req \in [Requests -> Request] /\ 200 \in Code /\ 503 \in Code
    BY DEF IInv, TypeOK, Code
  <2>2. CASE cache' = Stored(r) /\ Answer(r, 200, r)
    BY <1>2, <2>1, <2>2, AnswerBecomes
  <2>3. CASE Answer(r, 503, NoOrder) /\ "redis" \in faults
    BY <1>2, <2>1, <2>3, AnswerBecomes
  <2> QED BY <1>1, <2>2, <2>3
<1>4. Moves(r)
  BY <1>1, <1>3 DEF Becomes, Moves
<1>5. Sound(r)'
  <2>1. /\ req'[r].key = req[r].key /\ req'[r].body = req[r].body
        /\ req'[r].pc = "done" /\ (req'[r].code = 200 => req'[r].order = r)
        /\ req'[r].code \in {200, 503} /\ ~req'[r].retryAfter
    BY <1>3 DEF Becomes
  <2>2. req[r].body \in Bodies
    BY <1>1, <1>2 DEF Sound
  <2>3. ~Refused(r)'
    BY <2>1 DEF Refused
  <2> QED BY <1>1, <1>2, <2>1, <2>2, <2>3 DEF Sound
<1>6. Keyed(r)'
  <2>0. CASE Becomes(r, "done", req[r].noted, 503, NoOrder) /\ "redis" \in faults
    BY <1>1, <2>0 DEF Becomes, Keyed, Forgotten
  <2> SUFFICES ASSUME Becomes(r, "done", req[r].noted, 200, r), cache' = Stored(r)
               PROVE  Keyed(r)'
    BY <1>3, <2>0
  <2>1. cache' = Stored(r) /\ req[r].key \in Keys /\ cache \in [Keys -> Entry \cup {NoEntry}]
    BY <1>2 DEF IInv, TypeOK, Request
  <2>2. cache'[req[r].key].order = r
    BY <2>1 DEF Stored
  <2> QED BY <2>2 DEF Becomes, Keyed
<1>7. Admitted' \subseteq Admitted
  BY <1>3 DEF Becomes, Admitted
<1> QED BY <1>1, <1>4, <1>5, <1>6, <1>7, NoneAdmitted, ServeInv

(* A request that is being served takes one of these steps. *)
LEMMA ServesInv ==
  ASSUME IInv, NEW r \in Requests, Serve(r)
  PROVE  IInv'
<1>1. /\ Code = {0, 200, 400, 409, 429, 500, 503}
      /\ req \in [Requests -> Request] /\ req[r].order \in Requests \cup {NoOrder}
  BY DEF Code, IInv, TypeOK, Request
<1>2. CASE RateLimit(r)
  <2>1. CASE AskToRetry(r, 429)
    <3>1. Becomes(r, "done", req[r].noted, 429, req[r].order)
      BY <1>1, <2>1, AskToRetryBecomes
    <3> QED BY <1>1, <1>2, <3>1, EndInv DEF RateLimit
  <2>2. CASE Goto(r, "queueDepth")
    BY <1>2, <2>2, PassInv DEF RateLimit
  <2> QED BY <1>2, <2>1, <2>2 DEF RateLimit
<1>3. CASE QueueDepth(r)
  <2>1. PICK label \in {"queueHealth", "idempotency"} :
          Goto(r, label) /\ (label = "idempotency" => ~Overloaded \/ "redis" \in faults)
    BY <1>3 DEF QueueDepth
  <2> QED BY <1>3, <2>1, PassInv DEF QueueDepth
<1>4. CASE QueueHealth(r)
  <2>1. CASE AskToRetry(r, 503)
    <3>1. Becomes(r, "done", req[r].noted, 503, req[r].order)
      BY <1>1, <2>1, AskToRetryBecomes
    <3> QED BY <1>1, <1>4, <3>1, EndInv DEF QueueHealth
  <2>2. CASE Goto(r, "idempotency") /\ "redis" \in faults
    BY <1>4, <2>2, PassInv DEF QueueHealth
  <2> QED BY <1>4, <2>1, <2>2 DEF QueueHealth
<1>5. CASE Idempotency(r)
  <2>1. req[r].pc = "idempotency" /\ UNCHANGED <<faults, cache, rows, jobs, taken, waiting>>
    BY <1>5 DEF Idempotency
  <2>2. CASE Replay(r)
    <3> DEFINE entry == cache[req[r].key]
    <3>1. req[r].key \in Keys /\ entry # NoEntry /\ entry \in Entry
      BY <2>2 DEF Replay, IInv, TypeOK, Request
    <3>2. /\ entry.order \in jobs /\ req[entry.order].key = req[r].key
          /\ req[entry.order].body = entry.body /\ entry.order \in Requests
      BY <3>1 DEF IInv, EntriesBacked, Entry
    <3>3. CASE entry.body = req[r].body /\ Answer(r, 200, entry.order)
      <4>1. Becomes(r, "done", req[r].noted, 200, entry.order)
        BY <1>1, <3>2, <3>3, AnswerBecomes
      <4> QED BY <1>1, <2>1, <3>2, <3>3, <4>1, EndInv
    <3>4. CASE entry.body # req[r].body /\ Answer(r, 409, NoOrder)
      <4>1. Becomes(r, "done", req[r].noted, 409, NoOrder)
        BY <1>1, <3>4, AnswerBecomes
      <4> QED BY <1>1, <2>1, <3>2, <3>4, <4>1, EndInv
    <3> QED BY <2>2, <3>3, <3>4 DEF Replay
  <2>3. CASE req[r].key # NoKey /\ cache[req[r].key] = NoEntry /\ req' = Handled(r, TRUE)
    BY <2>1, <2>3, HandledInv
  <2>4. CASE (req[r].key = NoKey \/ "redis" \in faults) /\ req' = Handled(r, FALSE)
    BY <2>1, <2>4, HandledInv
  <2>5. CASE Answer(r, 500, NoOrder)
    <3>1. Becomes(r, "done", req[r].noted, 500, NoOrder)
      BY <1>1, <2>5, AnswerBecomes
    <3> QED BY <1>1, <2>1, <3>1, EndInv
  <2> QED BY <1>5, <2>2, <2>3, <2>4, <2>5 DEF Idempotency
<1>6. CASE CreateOrder(r)
  <2>1. CASE Goto(r, "enqueue") /\ rows' = rows \cup {r}
    BY <1>6, <2>1, CreateInv DEF CreateOrder
  <2>2. CASE /\ Answer(r, 503, NoOrder)
             /\ rows' = rows \/ (rows' = rows \cup {r} /\ "db" \in faults)
    <3>1. Becomes(r, "done", req[r].noted, 503, NoOrder) /\ ~req'[r].retryAfter
      <4>1. ~req[r].retryAfter
        BY <1>6, Parts DEF CreateOrder, Sound
      <4> QED BY <1>1, <2>2, <4>1, AnswerBecomes
    <3> QED BY <1>1, <1>6, <2>2, <3>1, EndInv DEF CreateOrder
  <2> QED BY <1>6, <2>1, <2>2 DEF CreateOrder
<1> QED BY <1>2, <1>3, <1>4, <1>5, <1>6, EnqueueInv, StoreInv DEF Serve

-----------------------------------------------------------------------------
(* Clients and the environment *)

(* A request that is sent is nobody's order yet. *)
LEMMA SendInv ==
  ASSUME IInv, NEW r \in Requests, NEW k \in Keys \cup {NoKey}, NEW b \in Bodies, Send(r, k, b)
  PROVE  IInv'
<1> DEFINE new == [Unsent EXCEPT !.pc = "rateLimit", !.key = k, !.body = b]
<1>1. /\ req[r].pc = "new" /\ Cardinality(InFlight) < MaxInFlight
      /\ k # NoKey /\ "overlap" \notin faults => \A q \in InFlight : req[q].key # k
      /\ UNCHANGED <<faults, cache, rows, jobs, taken, waiting>>
  BY DEF Send
<1>2. req[r] = Unsent /\ r \notin rows /\ r \notin jobs
  BY <1>1, Parts DEF Sound
<1>3. req' = [req EXCEPT ![r] = new]
  BY <1>2 DEF Send
<1>4. /\ new \in Request /\ new.pc = "rateLimit" /\ new.key = k /\ new.body = b
      /\ new.code = 0 /\ new.noted = FALSE /\ new.retryAfter = FALSE
  <2>1. /\ Unsent \in Request /\ Unsent.code = 0
        /\ Unsent.noted = FALSE /\ Unsent.retryAfter = FALSE
    BY DEF Unsent, Request, Label, Code
  <2>2. ASSUME NEW u \in Request
        PROVE  LET n == [u EXCEPT !.pc = "rateLimit", !.key = k, !.body = b] IN
               /\ n \in Request /\ n.pc = "rateLimit" /\ n.key = k /\ n.body = b
               /\ n.code = u.code /\ n.noted = u.noted /\ n.retryAfter = u.retryAfter
    BY DEF Request, Label
  <2> QED BY <2>1, <2>2
<1> HIDE DEF new
<1>5. /\ req' \in [Requests -> Request] /\ \A q \in Requests \ {r} : req'[q] = req[q]
      /\ req'[r] = new
  BY <1>3, <1>4 DEF IInv, TypeOK
<1>6. TypeOK'
  BY <1>1, <1>5 DEF IInv, TypeOK
<1>7. \A kinds : Without(kinds)' <=> Without(kinds)
  BY <1>1 DEF Without
<1>8. ASSUME NEW q \in Requests
      PROVE  Sound(q)'
  <2>1. CASE q = r
    BY <1>1, <1>2, <1>4, <1>5, <2>1 DEF Sound, Refused
  <2>2. CASE q # r
    <3>1. Sound(q) /\ req'[q] = req[q] /\ jobs \subseteq Requests
      BY <1>5, <2>2, Parts DEF IInv, TypeOK
    <3>2. \A o \in jobs : req'[o] = req[o]
      BY <1>2, <1>5, <3>1
    <3>3. req[q].code = 200 => /\ req[q].order \in rows' \cap jobs'
                               /\ req'[req[q].order].body = req[q].body
                               /\ req[q].order # q => req'[req[q].order].key = req[q].key
      BY <1>1, <3>1, <3>2 DEF Sound
    <3>4. req[q].code = 409 =>
            \E o \in jobs' : req'[o].key = req[q].key /\ req'[o].body # req[q].body
      BY <1>1, <3>1, <3>2 DEF Sound
    <3> QED BY <1>1, <1>7, <3>1, <3>3, <3>4 DEF Sound, Refused
  <2> QED BY <2>1, <2>2
<1>9. EntriesBacked'
  BY <1>1, <1>2, <1>5 DEF IInv, TypeOK, EntriesBacked
<1>10. InFlight' = InFlight \cup {r} /\ r \notin InFlight
  BY <1>1, <1>4, <1>5 DEF InFlight
<1>11. InFlightBounded'
  <2>1. IsFiniteSet(InFlight) /\ Cardinality(InFlight) \in Nat
    BY Finite, FS_CardinalityType DEF IInv
  <2>2. Cardinality(InFlight \cup {r}) = Cardinality(InFlight) + 1
    BY <1>10, <2>1, FS_AddElement
  <2> QED BY <1>1, <1>10, <2>1, <2>2, SubmissionAssumption
          DEF InFlightBounded, SubmissionAssumption
<1>12. KeysHeld'
  <2> SUFFICES ASSUME Without({"overlap", "expire", "crash"})
               PROVE  /\ \A p, q \in InFlight' :
                           req'[p].key = req'[q].key /\ req'[p].key # NoKey => p = q
                      /\ \A o \in jobs : req'[o].key # NoKey =>
                           Forgotten(o)' \/ req'[o].pc = "store" \/ cache[req'[o].key].order = o
                      /\ \A q \in Requests :
                           req'[q].pc \in {"create", "enqueue", "store"} /\ req'[q].key # NoKey =>
                             IF req'[q].noted THEN cache[req'[q].key] = NoEntry
                             ELSE "redis" \in faults
    BY <1>1, <1>7 DEF KeysHeld
  <2>1. \A p, q \in InFlight : req[p].key = req[q].key /\ req[p].key # NoKey => p = q
    BY DEF IInv, KeysHeld
  <2>2. k # NoKey => \A q \in InFlight : req[q].key # k
    BY <1>1 DEF Without
  <2>3. \A q \in InFlight : req'[q] = req[q]
    BY <1>5, <1>10 DEF InFlight
  <2>4. \A p, q \in InFlight' : req'[p].key = req'[q].key /\ req'[p].key # NoKey => p = q
    BY <1>4, <1>5, <1>10, <2>1, <2>2, <2>3
  <2>5. \A o \in jobs : req'[o] = req[o] /\ (Forgotten(o)' <=> Forgotten(o))
    BY <1>1, <1>2, <1>5 DEF IInv, TypeOK, Forgotten
  <2>6. \A q \in Requests : req'[q].pc \in {"create", "enqueue", "store"} => req'[q] = req[q]
    BY <1>4, <1>5
  <2> QED BY <2>4, <2>5, <2>6 DEF IInv, KeysHeld
<1>13. Admitted' \subseteq Admitted
  BY <1>4, <1>5 DEF Admitted
<1>14. QueueOvershoot'
  BY <1>1, <1>13, NoneAdmitted
<1> QED BY <1>6, <1>8, <1>9, <1>11, <1>12, <1>14, Collected

(* Workers only move jobs on and off the wait list. *)
LEMMA WorkerInv ==
  ASSUME IInv, NEW o \in Requests, TakeJob(o) \/ Requeue(o)
  PROVE  IInv'
<1>1. UNCHANGED <<faults, req, cache, rows, jobs>>
  BY DEF TakeJob, Requeue
<1>2. TypeOK' /\ waiting' \ taken' \subseteq waiting \ taken
  BY <1>1 DEF TakeJob, Requeue, IInv, TypeOK
<1>3. QueueOvershoot'
  BY <1>1, <1>2, NoneAdmitted DEF Admitted
<1>4. Sequenced' /\ EntriesBacked' /\ InFlightBounded' /\ AnswerIsBacked' /\ ConflictIsReal'
      /\ RefusalCreatesNothing'
  BY <1>1 DEF IInv, Sequenced, EntriesBacked, InFlightBounded, InFlight, AnswerIsBacked,
              ConflictIsReal, RefusalCreatesNothing, Refused
<1>5. KeysHeld' /\ NoOrphanRow'
  BY <1>1 DEF IInv, KeysHeld, Forgotten, InFlight, NoOrphanRow, Without
<1> QED BY <1>2, <1>3, <1>4, <1>5 DEF IInv

(* A key that ages out stands for nothing. *)
LEMMA ExpireInv ==
  ASSUME IInv, NEW k \in Keys, Expire(k)
  PROVE  IInv'
<1>1. /\ UNCHANGED <<faults, req, rows, jobs, taken, waiting>>
      /\ "expire" \in faults /\ cache' = [cache EXCEPT ![k] = NoEntry]
  BY DEF Expire
<1>2. TypeOK'
  BY <1>1 DEF IInv, TypeOK
<1>3. EntriesBacked'
  BY <1>1 DEF IInv, TypeOK, EntriesBacked
<1>4. KeysHeld'
  BY <1>1 DEF KeysHeld, Without
<1>5. QueueOvershoot'
  BY <1>1, NoneAdmitted DEF Admitted
<1>6. Sequenced' /\ InFlightBounded' /\ AnswerIsBacked' /\ ConflictIsReal'
      /\ RefusalCreatesNothing' /\ NoOrphanRow'
  BY <1>1 DEF IInv, Sequenced, InFlightBounded, InFlight, AnswerIsBacked,
              ConflictIsReal, RefusalCreatesNothing, Refused, NoOrphanRow, Without
<1> QED BY <1>2, <1>3, <1>4, <1>5, <1>6 DEF IInv

(* The requests of a process that dies are over, and not answered. *)
LEMMA CrashInv ==
  ASSUME IInv, Crash
  PROVE  IInv'
<1>1. /\ UNCHANGED <<faults, cache, rows, jobs, taken, waiting>> /\ "crash" \in faults
      /\ req \in [Requests -> Request]
  BY DEF Crash, IInv, TypeOK
<1>2. ASSUME NEW q \in Requests
      PROVE  /\ req'[q] \in Request
             /\ req'[q].pc = (IF q \in InFlight THEN "done" ELSE req[q].pc)
             /\ req'[q].key = req[q].key /\ req'[q].body = req[q].body
             /\ req'[q].noted = req[q].noted /\ req'[q].retryAfter = req[q].retryAfter
             /\ req'[q].code = req[q].code /\ req'[q].order = req[q].order
             /\ q \notin InFlight => req'[q] = req[q]
  <2> DEFINE dropped == [req[q] EXCEPT !.pc = "done"]
  <2>1. req'[q] = IF q \in InFlight THEN dropped ELSE req[q]
    BY DEF Crash
  <2>2. /\ dropped \in Request /\ dropped.pc = "done"
        /\ dropped.key = req[q].key /\ dropped.body = req[q].body
        /\ dropped.noted = req[q].noted /\ dropped.retryAfter = req[q].retryAfter
        /\ dropped.code = req[q].code /\ dropped.order = req[q].order
    BY <1>1 DEF Request, Label
  <2> HIDE DEF dropped
  <2> QED BY <1>1, <2>1, <2>2
<1>3. req' = [q \in Requests |-> req'[q]]
  BY DEF Crash
<1>4. TypeOK'
  BY <1>1, <1>2, <1>3 DEF IInv, TypeOK
<1>5. ASSUME NEW q \in Requests
      PROVE  Sound(q)'
  <2>1. Sound(q) /\ jobs \subseteq Requests
    BY Parts DEF IInv, TypeOK
  <2>2. IF req'[q].pc = "new" THEN req'[q] = Unsent ELSE req'[q].body \in Bodies
    BY <1>2, <2>1 DEF Sound, InFlight
  <2>3. /\ req'[q].pc # "done" => req'[q].code = 0 /\ ~req'[q].retryAfter
        /\ q \in rows => req'[q].pc \in {"enqueue", "store", "done"}
        /\ q \in jobs => q \in rows /\ req'[q].pc \in {"store", "done"}
        /\ req'[q].pc = "enqueue" => q \in rows
        /\ req'[q].pc = "store" => q \in jobs /\ req'[q].noted
        /\ req'[q].noted => req'[q].key # NoKey
    BY <1>2, <2>1 DEF Sound
  <2>4. q \in rows \ jobs =>
          \/ req'[q].pc = "enqueue"
          \/ /\ req'[q].pc = "done"
             /\ \/ req'[q].code = 503 /\ ~Without({"db", "redis"})'
                \/ req'[q].code = 0 /\ ~Without({"crash"})'
    <3>1. ~Without({"crash"})' /\ (Without({"db", "redis"})' <=> Without({"db", "redis"}))
      BY <1>1 DEF Without
    <3> QED BY <1>2, <2>1, <3>1 DEF Sound
  <2>5. /\ req'[q].code = 200 =>
             /\ req'[q].order \in rows' \cap jobs'
             /\ req'[req'[q].order].body = req'[q].body
             /\ req'[q].order # q => req'[req'[q].order].key = req'[q].key
        /\ req'[q].code = 409 =>
             \E o \in jobs' : req'[o].key = req'[q].key /\ req'[o].body # req'[q].body
    BY <1>1, <1>2, <2>1 DEF Sound
  <2>6. Refused(q)' => q \notin rows /\ q \notin jobs
    BY <1>2, <2>1 DEF Sound, Refused
  <2> QED BY <1>1, <2>2, <2>3, <2>4, <2>5, <2>6 DEF Sound
<1>6. EntriesBacked'
  BY <1>1, <1>2 DEF IInv, TypeOK, EntriesBacked
<1>7. KeysHeld'
  BY <1>1 DEF KeysHeld, Without
<1>8. InFlight' \subseteq InFlight /\ Admitted' \subseteq Admitted
  BY <1>2 DEF InFlight, Admitted
<1>9. InFlightBounded'
  <2>1. /\ Cardinality(InFlight') <= Cardinality(InFlight)
        /\ Cardinality(InFlight') \in Nat /\ Cardinality(InFlight) \in Nat
    BY <1>8, Finite, FS_Subset, FS_CardinalityType DEF IInv
  <2> QED BY <2>1, SubmissionAssumption DEF IInv, InFlightBounded, SubmissionAssumption
<1>10. QueueOvershoot'
  BY <1>1, <1>8, NoneAdmitted
<1> QED BY <1>4, <1>5, <1>6, <1>7, <1>9, <1>10, Collected

-----------------------------------------------------------------------------
(* The theorems *)

(* Nothing is sent, stored or queued at the start. *)
LEMMA InitInv ==
  ASSUME Init
  PROVE  IInv
<1> USE DEF Init
<1>1. Unsent \in Request
  BY DEF Unsent, Request, Label, Code
<1>2. TypeOK
  BY <1>1, SubmissionAssumption DEF TypeOK, SubmissionAssumption
<1>3. Sequenced /\ EntriesBacked /\ AnswerIsBacked /\ ConflictIsReal /\ RefusalCreatesNothing
      /\ NoOrphanRow
  BY DEF Sequenced, EntriesBacked, AnswerIsBacked, ConflictIsReal, RefusalCreatesNothing,
         Refused, NoOrphanRow, Unsent
<1>4. InFlight = {} /\ Admitted = {} /\ waiting \ taken = {}
  BY DEF InFlight, Admitted, Unsent
<1>5. KeysHeld
  BY <1>4 DEF KeysHeld, Unsent
<1>6. Cardinality({}) = 0
  BY FS_EmptySet
<1>7. InFlightBounded /\ QueueOvershoot
  BY <1>4, <1>6, SubmissionAssumption
     DEF InFlightBounded, QueueOvershoot, SubmissionAssumption
<1> QED BY <1>2, <1>3, <1>5, <1>7 DEF IInv

(* Every step keeps the invariant. *)
LEMMA NextInv ==
  ASSUME IInv, [Next]_vars
  PROVE  IInv'
<1>1. CASE UNCHANGED vars
  <2>1. TypeOK' /\ Sequenced' /\ EntriesBacked' /\ AnswerIsBacked' /\ ConflictIsReal'
        /\ RefusalCreatesNothing'
    BY <1>1 DEF vars, IInv, TypeOK, Sequenced, EntriesBacked, AnswerIsBacked,
                ConflictIsReal, RefusalCreatesNothing, Refused
  <2>2. KeysHeld' /\ InFlightBounded' /\ QueueOvershoot' /\ NoOrphanRow'
    BY <1>1 DEF vars, IInv, KeysHeld, Forgotten, InFlightBounded, InFlight, QueueOvershoot, Admitted,
                NoOrphanRow, Without
  <2> QED BY <2>1, <2>2 DEF IInv
<1> QED BY <1>1, SendInv, ServesInv, WorkerInv, ExpireInv, CrashInv DEF Next

(* Whatever fails and overlaps, requests, rows, jobs and keys agree. *)
THEOREM Invariance == Spec => []IInv
<1>1. Init => IInv
  BY InitInv
<1>2. IInv /\ [Next]_vars => IInv'
  BY NextInv
<1> QED BY <1>1, <1>2, PTL DEF Spec

(* The state of the submission has the declared types: there is no job for  *)
(* a request that does not exist, no job taken that was not added.          *)
THEOREM TypeCorrect == Spec => []TypeOK
<1>1. IInv => TypeOK
  BY DEF IInv
<1> QED BY <1>1, Invariance, PTL

(* An answer 200 names an order with a row and a job, created for the body  *)
(* (and the key) of the very request that is answered.                      *)
THEOREM AnswersAreBacked == Spec => []AnswerIsBacked
<1>1. IInv => AnswerIsBacked
  BY DEF IInv
<1> QED BY <1>1, Invariance, PTL

(* A 409 is given only for a key that did create an order, for another body. *)
THEOREM ConflictsAreReal == Spec => []ConflictIsReal
<1>1. IInv => ConflictIsReal
  BY DEF IInv
<1> QED BY <1>1, Invariance, PTL

(* A request that is refused before it is executed, by the rate limit, the  *)
(* overloaded queue, its key or its body, or that is answered with an       *)
(* earlier order, has neither row nor job, then or later.                   *)
THEOREM RefusalsCreateNothing == Spec => []RefusalCreatesNothing
<1>1. IInv => RefusalCreatesNothing
  BY DEF IInv
<1> QED BY <1>1, Invariance, PTL

(* A key that is not repeated while it is served, aged out or cut off by a  *)
(* crash makes one job, and another only if Redis has made one be forgotten. *)
THEOREM KeysMakeOneJob == Spec => []OneJobPerKey
<1>1. IInv => OneJobPerKey
  <2> SUFFICES ASSUME IInv, Without({"overlap", "expire", "crash"}),
                      NEW o \in jobs, NEW p \in jobs,
                      req[o].key = req[p].key, req[o].key # NoKey,
                      ~Forgotten(o), ~Forgotten(p)
               PROVE  o = p
    BY DEF OneJobPerKey
  <2>1. /\ o \in Requests /\ p \in Requests /\ cache \in [Keys -> Entry \cup {NoEntry}]
        /\ req[o].pc = "store" => o \in InFlight /\ req[o].noted
        /\ req[p].pc = "store" => p \in InFlight /\ req[p].noted
    BY DEF IInv, TypeOK, InFlight, Sequenced
  <2>2. /\ req[o].pc = "store" \/ cache[req[o].key].order = o
        /\ req[p].pc = "store" \/ cache[req[o].key].order = p
    BY DEF IInv, KeysHeld
  <2>3. req[o].pc = "store" \/ req[p].pc = "store" => cache[req[o].key] = NoEntry
    BY <2>1 DEF IInv, KeysHeld
  <2>4. NoEntry.order \notin Requests
    BY SubmissionAssumption DEF NoEntry, SubmissionAssumption
  <2>5. CASE req[o].pc = "store" /\ req[p].pc = "store"
    BY <2>1, <2>5 DEF IInv, KeysHeld
  <2> QED BY <2>1, <2>2, <2>3, <2>4, <2>5
<1> QED BY <1>1, Invariance, PTL

(* While Redis answers, new jobs overshoot the threshold of the queue by no *)
(* more than the requests that are served at once.                          *)
THEOREM OvershootIsBounded == Spec => []QueueOvershoot
<1>1. IInv => QueueOvershoot
  BY DEF IInv
<1> QED BY <1>1, Invariance, PTL

(* A row that nobody will process is on its way to the queue, was answered  *)
(* 503 after PostgreSQL or Redis failed, or was left unanswered by a crash. *)
THEOREM RowsAreProcessed == Spec => []NoOrphanRow
<1>1. IInv => NoOrphanRow
  BY DEF IInv
<1> QED BY <1>1, Invariance, PTL
=============================================================================
