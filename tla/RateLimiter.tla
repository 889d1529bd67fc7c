----------------------------- MODULE RateLimiter -----------------------------
(***************************************************************************)
(* src/middleware/rateLimit.ts: the sliding window of one client address.  *)
(* Addresses have keys of their own and never meet.  Each request is one   *)
(* MULTI that drops what has left the window, counts the rest and adds the *)
(* request, refused or not; the answer is judged by that count.  The clock *)
(* is in ticks, of which the window lasts Window.                          *)
(*                                                                         *)
(* With the fault redis the MULTI rejects, before or after its effect, and *)
(* the request is let through unchecked.                                   *)
(***************************************************************************)
EXTENDS Naturals, FiniteSets

CONSTANTS
  RateLimit,  \* config.RATE_LIMIT
  Window,     \* WINDOW_SIZE, in ticks
  MaxStored,  \* bounds the requests the set holds
  RedisFails  \* whether Redis may fail

ASSUME LimiterAssumption ==
  /\ RateLimit \in Nat \ {0} /\ Window \in Nat \ {0} /\ MaxStored \in Nat
  /\ RedisFails \in BOOLEAN

VARIABLES
  stored,     \* the members of ratelimit:<ip>
  admitted,   \* the requests in the window that passed the check
  remaining,  \* the last X-RateLimit-Remaining the client got
  missed,     \* the last answer came without that header
  idle,       \* ticks since the last request
  verdict     \* what became of the last request

limiterVars == <<stored, admitted, remaining, missed, idle, verdict>>

-----------------------------------------------------------------------------
(* A member is a request: its score, as the ticks since then, and what the  *)
(* random part of its name tells it from others of its tick by.  Members    *)
(* that have left the window stay until the next request: they all have the *)
(* age Window.                                                              *)
Ages == 0..Window

Member == [age : Ages, no : 1..MaxStored]

InWindow(set) == {m \in set : m.age < Window}

LimiterTypeOK ==
  /\ stored \subseteq Member
  /\ admitted \subseteq InWindow(Member)
  /\ remaining \in 0..RateLimit
  /\ missed \in BOOLEAN
  /\ idle \in Ages
  /\ verdict \in {"none", "admitted", "refused", "unchecked"}

LimiterInit ==
  /\ stored = {}
  /\ admitted = {}
  /\ remaining = RateLimit
  /\ missed = FALSE
  /\ idle = Window
  /\ verdict = "none"

(* ZREMRANGEBYSCORE up to windowStart, which is included. *)
Pruned(set) == InWindow(set)

(* Mutant: the request that is being judged is not taken off. *)
LeftBeforeThis(count) == IF count < RateLimit THEN RateLimit - count ELSE 0

(* Math.max(0, RATE_LIMIT - count - 1) *)
Left(count) == IF count < RateLimit THEN RateLimit - count - 1 ELSE 0

Passes(count) == count < RateLimit

(* The request, which is like no other of its tick. *)
Request ==
  [age |-> 0, no |-> 1 + Cardinality({m \in stored \cup admitted : m.age = 0})]

(* Mutant: the member is the time alone, and ZADD replaces an equal one. *)
RecordedByTime(set) == Pruned(set) \cup {[age |-> 0, no |-> 1]}

(* ZREMRANGEBYSCORE, then ZADD. *)
Recorded(set) == Pruned(set) \cup {Request}

(* A request whose MULTI is answered. *)
Check ==
  LET count == Cardinality(Pruned(stored)) IN
  /\ Cardinality(stored) < MaxStored
  /\ stored' = Recorded(stored)
  /\ remaining' = Left(count)
  /\ missed' = FALSE
  /\ idle' = 0
  /\ \/ /\ Passes(count)
        /\ admitted' = admitted \cup {Request}
        /\ verdict' = "admitted"
     \/ /\ ~Passes(count)
        /\ verdict' = "refused"
        /\ UNCHANGED admitted

(* The catch block: the request is not blocked, and gets no headers. *)
FailOpen ==
  /\ RedisFails
  /\ Cardinality(stored) < MaxStored
  /\ stored' \in {stored, Recorded(stored)}
  /\ verdict' = "unchecked"
  /\ missed' = TRUE
  /\ idle' = 0
  /\ UNCHANGED <<admitted, remaining>>

(* A member a tick later. *)
Aged(m) == [m EXCEPT !.age = IF @ < Window THEN @ + 1 ELSE Window]

Older(set) == {Aged(m) : m \in set}

(* EXPIRE: the key is gone once its latest member has left the window. *)
Expired(set) == IF InWindow(set) = {} THEN {} ELSE set

(* A tick passes. *)
AgeWindow ==
  /\ idle' = IF idle < Window THEN idle + 1 ELSE Window
  /\ stored' = Expired(Older(stored))
  /\ admitted' = InWindow(Older(admitted))
  /\ verdict' = "none"
  /\ UNCHANGED <<remaining, missed>>

LimiterStep == Check \/ FailOpen

-----------------------------------------------------------------------------
(* Properties *)

(* No more than RateLimit requests pass the check within any window, also   *)
(* when Redis fails in between.                                             *)
WindowLimit == Cardinality(admitted) <= RateLimit

(* A client is refused only when its last answer left it no request, and    *)
(* never after it paused for a window: that refused requests are counted as *)
(* well keeps out only those who do not stop asking.                        *)
RefusalsEarned ==
  [][verdict' = "refused" =>
       /\ missed \/ remaining = 0
       /\ idle < Window]_limiterVars

-----------------------------------------------------------------------------
(* Why they hold *)

(* What passed the check is in the set as long as it is in the window. *)
AdmittedStored == admitted \subseteq stored

(* The set holds no more than the last header told the client. *)
HeaderKept ==
  missed \/ remaining = 0 \/ Cardinality(InWindow(stored)) + remaining <= RateLimit

(* Every member is a request, made before or as the client fell silent. *)
PausedSince == \A m \in stored : m.age >= idle

LimiterInv ==
  LimiterTypeOK /\ AdmittedStored /\ HeaderKept /\ PausedSince /\ WindowLimit
=============================================================================
