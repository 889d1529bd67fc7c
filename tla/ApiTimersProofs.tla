-------------------------- MODULE ApiTimersProofs --------------------------
(***************************************************************************)
(* Proofs about ApiTimers, for any interval and any set of timeouts, any   *)
(* limit, any window and any bound on what Redis stores.                   *)
(*                                                                         *)
(* HeartbeatInv and LimiterInv speak of one part each, and the steps of    *)
(* the other part leave it be; a tick is a step of both.                   *)
(***************************************************************************)
EXTENDS ApiTimers, FiniteSetTheorems, TLAPS

-----------------------------------------------------------------------------
(* The heartbeat *)

(* A heartbeat starts with no ping and no timer. *)
LEMMA HeartbeatStarts == HeartbeatInit => HeartbeatInv
<1> SUFFICES ASSUME HeartbeatInit
             PROVE  HeartbeatInv
  OBVIOUS
<1>1. pongTimeout \in Nat \ {0} /\ PingInterval \in Nat \ {0}
  BY HeartbeatAssumption DEF HeartbeatInit, HeartbeatAssumption
<1>2. HeartbeatTypeOK
  <2>1. timers \subseteq 0..pongTimeout /\ unanswered \subseteq 0..pongTimeout
    BY DEF HeartbeatInit
  <2>2. nextPing \in 0..PingInterval /\ silence \in Nat
    BY <1>1 DEF HeartbeatInit
  <2>3. overdue \in BOOLEAN
    BY DEF HeartbeatInit
  <2> QED BY <2>1, <2>2, <2>3 DEF HeartbeatInit, HeartbeatTypeOK
<1> QED
  BY <1>1, <1>2 DEF HeartbeatInit, HeartbeatInv, ClosedIsCleared, TimersAnswered,
                    SilenceTimed, AnsweringKept

(* The numbers of the heartbeat. *)
LEMMA HeartbeatNumbers ==
  ASSUME HeartbeatTypeOK
  PROVE  /\ pongTimeout \in Nat \ {0} /\ PingInterval \in Nat \ {0}
         /\ nextPing \in Nat /\ nextPing <= PingInterval /\ silence \in Nat
         /\ \A t \in timers : t \in Nat /\ t <= pongTimeout
         /\ \A a \in unanswered : a \in Nat /\ a <= pongTimeout
BY HeartbeatAssumption DEF HeartbeatTypeOK, HeartbeatAssumption

(* A ping starts a timer, when none is left of the pings before it. *)
LEMMA PingBeats ==
  ASSUME HeartbeatInv, Ping
  PROVE  HeartbeatInv'
<1> USE DEF HeartbeatInv
<1>1. /\ conn = "open" /\ nextPing = 0 /\ nextPing' = PingInterval
      /\ timers' = timers \cup {pongTimeout} /\ tracked' = {pongTimeout}
      /\ unanswered' = unanswered \cup {0}
      /\ UNCHANGED <<pongTimeout, conn, overdue, silence>>
  BY DEF Ping
<1>2. HeartbeatTypeOK'
  <2>1. /\ pongTimeout \in 0..pongTimeout /\ 0 \in 0..pongTimeout
        /\ PingInterval \in 0..PingInterval
    BY HeartbeatNumbers
  <2> QED BY <1>1, <2>1 DEF HeartbeatTypeOK
<1>3. ClosedIsCleared' /\ AnsweringKept'
  BY <1>1 DEF ClosedIsCleared, AnsweringKept
<1>4. TimersAnswered'
  <2>1. pongTimeout <= PingInterval /\ ~overdue => timers = {}
    BY <1>1, HeartbeatNumbers DEF TimersAnswered
  <2> QED BY <1>1, <2>1, HeartbeatNumbers DEF TimersAnswered
<1>5. SilenceTimed'
  <2>1. CASE silence + nextPing <= PingInterval
    <3>1. pongTimeout \in timers' /\ silence + pongTimeout <= PingInterval + pongTimeout
      BY <1>1, <2>1, HeartbeatNumbers
    <3> QED BY <1>1, <3>1 DEF SilenceTimed
  <2>2. CASE \E t \in timers : silence + t <= PingInterval + pongTimeout
    BY <1>1, <2>2 DEF SilenceTimed
  <2> QED BY <1>1, <2>1, <2>2 DEF SilenceTimed
<1> QED BY <1>2, <1>3, <1>4, <1>5

(* A pong clears the timer that is noted, and ends the silence. *)
LEMMA PongBeats ==
  ASSUME HeartbeatInv, HandlePong
  PROVE  HeartbeatInv'
<1> USE DEF HeartbeatInv
<1>1. /\ conn = "open" /\ timers' = timers \ tracked /\ tracked' = {}
      /\ unanswered' \subseteq unanswered /\ silence' = 0
      /\ UNCHANGED <<pongTimeout, conn, nextPing, overdue>>
  BY DEF HandlePong
<1>2. HeartbeatTypeOK'
  BY <1>1 DEF HeartbeatTypeOK
<1>3. ClosedIsCleared' /\ AnsweringKept'
  BY <1>1 DEF ClosedIsCleared, AnsweringKept
<1>4. TimersAnswered'
  BY <1>1 DEF TimersAnswered
<1>5. SilenceTimed'
  BY <1>1, HeartbeatNumbers DEF SilenceTimed
<1> QED BY <1>2, <1>3, <1>4, <1>5

(* A timer fires on an open socket only when a ping is overdue. *)
LEMMA TimeoutBeats ==
  ASSUME HeartbeatInv, PongTimeout
  PROVE  HeartbeatInv'
<1> USE DEF HeartbeatInv
<1>1. 0 \in timers /\ UNCHANGED <<pongTimeout, nextPing, overdue, silence>>
  BY DEF PongTimeout
<1>2. CASE conn = "open" /\ conn' = "terminated" /\ ClearTimers(timers \ {0})
  <2>1. /\ timers' \subseteq timers /\ tracked' = {} /\ unanswered' = {}
    BY <1>2 DEF ClearTimers
  <2>2. HeartbeatTypeOK'
    BY <1>1, <1>2, <2>1 DEF HeartbeatTypeOK
  <2>3. ~(pongTimeout <= PingInterval /\ ~overdue)
    BY <1>1, <1>2 DEF TimersAnswered
  <2>4. AnsweringKept'
    BY <1>1, <2>3 DEF AnsweringKept
  <2> QED BY <1>2, <2>1, <2>2, <2>4 DEF ClosedIsCleared, TimersAnswered, SilenceTimed
<1>3. CASE /\ conn # "open" /\ timers' = timers \ {0}
           /\ UNCHANGED <<conn, tracked, unanswered>>
  <2>1. HeartbeatTypeOK'
    BY <1>1, <1>3 DEF HeartbeatTypeOK, ClosedIsCleared
  <2> QED BY <1>1, <1>3, <2>1 DEF ClosedIsCleared, AnsweringKept, TimersAnswered,
                                  SilenceTimed
<1> QED BY <1>2, <1>3 DEF PongTimeout

(* A client that leaves takes the timer that is noted with it. *)
LEMMA CloseBeats ==
  ASSUME HeartbeatInv, HandleClose
  PROVE  HeartbeatInv'
<1> USE DEF HeartbeatInv
<1>1. /\ conn' = "closed" /\ timers' \subseteq timers /\ tracked' = {} /\ unanswered' = {}
      /\ UNCHANGED <<pongTimeout, nextPing, overdue, silence>>
  BY DEF HandleClose, ClearTimers
<1>2. HeartbeatTypeOK'
  BY <1>1 DEF HeartbeatTypeOK
<1> QED BY <1>1, <1>2 DEF ClosedIsCleared, AnsweringKept, TimersAnswered, SilenceTimed

(* A tick brings each timer, and the ping it is for, one nearer to its end. *)
LEMMA TickBeats ==
  ASSUME HeartbeatInv, AgeTimers
  PROVE  HeartbeatInv'
<1> USE DEF HeartbeatInv
<1>1. /\ 0 \notin timers /\ (conn = "open" => nextPing > 0)
      /\ timers' = {t - 1 : t \in timers} /\ tracked' = {t - 1 : t \in tracked}
      /\ nextPing' = IF conn = "open" THEN nextPing - 1 ELSE nextPing
      /\ unanswered' = {a + 1 : a \in {b \in unanswered : b + 1 < pongTimeout}}
      /\ silence' = IF conn = "open" THEN silence + 1 ELSE silence
      /\ pongTimeout' = pongTimeout /\ conn' = conn
  BY DEF AgeTimers
<1>2. overdue' = (overdue \/ \E a \in unanswered : a + 1 >= pongTimeout)
  BY DEF AgeTimers
<1>3. HeartbeatTypeOK'
  <2>1. timers' \subseteq 0..pongTimeout
    BY <1>1, HeartbeatNumbers
  <2>2. tracked' \subseteq timers'
    BY <1>1 DEF HeartbeatTypeOK
  <2>3. unanswered' \subseteq 0..pongTimeout
    BY <1>1, HeartbeatNumbers
  <2>4. nextPing' \in 0..PingInterval /\ silence' \in Nat
    BY <1>1, HeartbeatNumbers
  <2>5. overdue' \in BOOLEAN
    BY <1>2, Zenon DEF HeartbeatTypeOK
  <2> QED BY <1>1, <2>1, <2>2, <2>3, <2>4, <2>5 DEF HeartbeatTypeOK
<1>4. ClosedIsCleared'
  BY <1>1 DEF ClosedIsCleared
<1>5. overdue => overdue'
  BY <1>2
<1>6. AnsweringKept'
  BY <1>1, <1>5 DEF AnsweringKept
<1>7. TimersAnswered'
  <2> SUFFICES ASSUME pongTimeout <= PingInterval, ~overdue', conn = "open",
                      NEW t \in timers
               PROVE  /\ t - 1 > 0 /\ t - 1 \in tracked'
                      /\ pongTimeout - (t - 1) = PingInterval - nextPing'
                      /\ pongTimeout - (t - 1) \in unanswered'
    BY <1>1 DEF TimersAnswered
  <2>1. /\ t > 0 /\ t \in tracked /\ pongTimeout - t = PingInterval - nextPing
        /\ pongTimeout - t \in unanswered
    BY <1>5 DEF TimersAnswered
  <2>2. (pongTimeout - t) + 1 < pongTimeout
    <3>1. ~ \E a \in unanswered : a + 1 >= pongTimeout
      BY <1>2, Zenon
    <3>2. pongTimeout - t \in Int /\ pongTimeout \in Int
      BY HeartbeatNumbers
    <3> QED BY <2>1, <3>1, <3>2
  <2>3. pongTimeout - (t - 1) = (pongTimeout - t) + 1
    BY HeartbeatNumbers
  <2>4. pongTimeout - (t - 1) \in unanswered'
    BY <1>1, <2>1, <2>2, <2>3
  <2>5. t - 1 > 0 /\ pongTimeout - (t - 1) = PingInterval - nextPing'
    BY <1>1, <2>1, <2>2, HeartbeatNumbers
  <2> QED BY <1>1, <2>1, <2>4, <2>5
<1>8. SilenceTimed'
  <2>1. CASE silence + nextPing <= PingInterval
    BY <1>1, <2>1, HeartbeatNumbers DEF SilenceTimed
  <2>2. ASSUME conn = "open", NEW t \in timers,
               silence + t <= PingInterval + pongTimeout
        PROVE  t - 1 \in timers' /\ silence' + (t - 1) <= PingInterval + pongTimeout'
    BY <1>1, <2>2, HeartbeatNumbers
  <2> QED BY <1>1, <2>1, <2>2 DEF SilenceTimed
<1> QED BY <1>3, <1>4, <1>6, <1>7, <1>8

-----------------------------------------------------------------------------
(* The theorems about the heartbeat *)

(* Every step of the process's timers keeps the heartbeat's invariant. *)
LEMMA TimersBeat == HeartbeatInv /\ [Next]_vars => HeartbeatInv'
<1> SUFFICES ASSUME HeartbeatInv, [Next]_vars
             PROVE  HeartbeatInv'
  OBVIOUS
<1>1. CASE UNCHANGED heartbeatVars
  BY <1>1 DEF heartbeatVars, HeartbeatInv, HeartbeatTypeOK, ClosedIsCleared,
              TimersAnswered, SilenceTimed, AnsweringKept
<1>2. CASE HeartbeatStep
  BY <1>2, PingBeats, PongBeats, TimeoutBeats, CloseBeats DEF HeartbeatStep
<1>3. CASE AgeTimers
  BY <1>3, TickBeats
<1> QED BY <1>1, <1>2, <1>3 DEF Next, Tick, vars

(* The heartbeat's invariant: which timers run for which pings. *)
THEOREM HeartbeatInvariance == Spec => []HeartbeatInv
<1>1. Init => HeartbeatInv
  BY HeartbeatStarts DEF Init
<1> QED BY <1>1, TimersBeat, PTL DEF Spec

(* A client that answers each ping within the timeout, where that is no     *)
(* longer than the interval, is not terminated.                             *)
THEOREM AnsweringClientsStay == Spec => []AnsweringKept
<1>1. HeartbeatInv => AnsweringKept
  BY DEF HeartbeatInv
<1> QED BY <1>1, HeartbeatInvariance, PTL

(* A client that was not heard of for an interval and a timeout is gone,    *)
(* whatever the timeout.                                                    *)
THEOREM SilentClientsGo == Spec => []SilentDropped
<1>1. HeartbeatInv => SilentDropped
  <2> SUFFICES ASSUME HeartbeatInv, conn = "open"
               PROVE  silence <= PingInterval + pongTimeout
    BY DEF SilentDropped
  <2>1. HeartbeatTypeOK
    BY DEF HeartbeatInv
  <2> QED BY <2>1, HeartbeatNumbers DEF HeartbeatInv, SilenceTimed
<1> QED BY <1>1, HeartbeatInvariance, PTL

-----------------------------------------------------------------------------
(* The rate limiter *)

(* What the assumption says. *)
LEMMA LimiterNumbers ==
  RateLimit \in Nat \ {0} /\ Window \in Nat \ {0} /\ MaxStored \in Nat
BY LimiterAssumption DEF LimiterAssumption

(* A set of members has a size, and so has a part of it. *)
LEMMA MembersFinite ==
  ASSUME NEW set \in SUBSET Member
  PROVE  /\ IsFiniteSet(set) /\ Cardinality(set) \in Nat
         /\ \A part \in SUBSET set :
              /\ IsFiniteSet(part) /\ Cardinality(part) \in Nat
              /\ Cardinality(part) <= Cardinality(set)
<1>1. IsFiniteSet(Ages \X (1..MaxStored))
  <2>1. IsFiniteSet(Ages) /\ IsFiniteSet(1..MaxStored)
    BY LimiterNumbers, FS_Interval DEF Ages
  <2> QED BY <2>1, FS_Product
<1>2. IsFiniteSet(set)
  <2> DEFINE f == [m \in set |-> <<m.age, m.no>>]
  <2>1. f \in Injection(set, Ages \X (1..MaxStored))
    BY DEF Injection, IsInjective, Member
  <2> QED BY <1>1, <2>1, FS_Injection
<1> QED BY <1>2, FS_Subset, FS_CardinalityType

(* One element more is at most one more. *)
LEMMA OneMore ==
  ASSUME NEW set, IsFiniteSet(set), NEW x
  PROVE  /\ Cardinality(set \cup {x}) \in Nat
         /\ Cardinality(set \cup {x}) <= Cardinality(set) + 1
<1>1. Cardinality(set) \in Nat
  BY FS_CardinalityType
<1>2. Cardinality(set \cup {x}) = IF x \in set THEN Cardinality(set) ELSE Cardinality(set) + 1
  BY FS_AddElement
<1> QED BY <1>1, <1>2

(* What is in the window, and what passed the check, has a size. *)
LEMMA WindowCounted ==
  ASSUME LimiterTypeOK
  PROVE  /\ IsFiniteSet(InWindow(stored)) /\ Cardinality(InWindow(stored)) \in Nat
         /\ IsFiniteSet(admitted) /\ Cardinality(admitted) \in Nat
         /\ Cardinality(stored) \in Nat
<1>1. stored \in SUBSET Member /\ InWindow(stored) \in SUBSET stored
  BY DEF LimiterTypeOK, InWindow
<1>2. admitted \in SUBSET Member
  BY DEF LimiterTypeOK, InWindow
<1> QED BY <1>1, <1>2, MembersFinite

(* The limiter starts with an empty set. *)
LEMMA LimiterStarts == LimiterInit => LimiterInv
<1> SUFFICES ASSUME LimiterInit
             PROVE  LimiterInv
  OBVIOUS
<1>1. LimiterTypeOK
  <2>1. RateLimit \in 0..RateLimit /\ Window \in Ages
    BY LimiterNumbers DEF Ages
  <2> QED BY <2>1 DEF LimiterInit, LimiterTypeOK
<1>2. InWindow(stored) = {} /\ Cardinality({}) = 0
  BY FS_EmptySet DEF LimiterInit, InWindow
<1>3. HeaderKept /\ WindowLimit
  BY <1>2, LimiterNumbers DEF LimiterInit, HeaderKept, WindowLimit
<1> QED BY <1>1, <1>3 DEF LimiterInit, LimiterInv, AdmittedStored, PausedSince

(* A request that finds room makes a member, of this tick. *)
LEMMA RequestIsMember ==
  ASSUME LimiterTypeOK, AdmittedStored, Cardinality(stored) < MaxStored
  PROVE  Request \in Member /\ Request.age = 0 /\ Request \in InWindow(Member)
<1> DEFINE now == {m \in stored \cup admitted : m.age = 0}
<1>1. stored \in SUBSET Member /\ now \in SUBSET stored
  BY DEF LimiterTypeOK, AdmittedStored
<1>2. Cardinality(now) \in Nat /\ Cardinality(now) <= Cardinality(stored)
  BY <1>1, MembersFinite
<1>3. Cardinality(stored) \in Nat
  BY WindowCounted
<1>4. 1 + Cardinality(now) \in 1..MaxStored
  BY <1>2, <1>3, LimiterNumbers
<1>5. Request = [age |-> 0, no |-> 1 + Cardinality(now)]
  BY DEF Request
<1> HIDE DEF now
<1> QED BY <1>4, <1>5, LimiterNumbers DEF Member, Ages, InWindow

(* Recording a request adds it to what is in the window. *)
LEMMA RecordedAt ==
  ASSUME LimiterTypeOK, AdmittedStored, Cardinality(stored) < MaxStored
  PROVE  /\ Recorded(stored) \subseteq Member
         /\ Recorded(stored) = InWindow(stored) \cup {Request}
         /\ InWindow(Recorded(stored)) = Recorded(stored)
         /\ Cardinality(Recorded(stored)) \in Nat
         /\ Cardinality(Recorded(stored)) <= Cardinality(InWindow(stored)) + 1
<1>1. Request \in Member /\ Request \in InWindow(Member)
  BY RequestIsMember
<1>2. Recorded(stored) = InWindow(stored) \cup {Request}
  BY DEF Recorded, Pruned
<1>3. /\ Recorded(stored) \subseteq Member
      /\ InWindow(Recorded(stored)) = Recorded(stored)
  BY <1>1, <1>2 DEF LimiterTypeOK, InWindow
<1>4. /\ Cardinality(InWindow(stored) \cup {Request}) \in Nat
      /\ Cardinality(InWindow(stored) \cup {Request}) <= Cardinality(InWindow(stored)) + 1
  BY <1>1, WindowCounted, OneMore
<1> QED BY <1>1, <1>2, <1>3, <1>4

(* A request that is judged: what it is told is what the set then holds. *)
LEMMA CheckLimits ==
  ASSUME LimiterInv, Check
  PROVE  LimiterInv'
<1> DEFINE count == Cardinality(InWindow(stored))
<1>1. LimiterTypeOK /\ AdmittedStored /\ Cardinality(stored) < MaxStored
  BY DEF LimiterInv, Check
<1>2. /\ stored' = Recorded(stored) /\ remaining' = Left(count)
      /\ missed' = FALSE /\ idle' = 0
  BY DEF Check, Pruned
<1>3. \/ count < RateLimit /\ admitted' = admitted \cup {Request} /\ verdict' = "admitted"
      \/ admitted' = admitted /\ verdict' = "refused"
  BY DEF Check, Pruned, Passes
<1>4. admitted \subseteq InWindow(stored)
  BY <1>1 DEF LimiterTypeOK, AdmittedStored, InWindow
<1>5. /\ stored' \subseteq Member /\ stored' = InWindow(stored) \cup {Request}
      /\ InWindow(stored') = stored' /\ Cardinality(stored') <= count + 1
      /\ count \in Nat /\ Cardinality(stored') \in Nat
  BY <1>1, <1>2, RecordedAt, WindowCounted
<1>6. Request \in InWindow(Member) /\ Request.age = 0
  BY <1>1, RequestIsMember
<1>7. remaining' \in 0..RateLimit /\ (remaining' = 0 \/ count + 1 + remaining' <= RateLimit)
  BY <1>2, <1>5, LimiterNumbers DEF Left
<1>8. LimiterTypeOK'
  <2>1. admitted' \subseteq InWindow(Member)
    BY <1>1, <1>3, <1>6 DEF LimiterTypeOK
  <2>2. idle' \in Ages
    BY <1>2, LimiterNumbers DEF Ages
  <2> QED BY <1>2, <1>3, <1>5, <1>7, <2>1, <2>2 DEF LimiterTypeOK, InWindow, Member
<1>9. AdmittedStored'
  BY <1>3, <1>4, <1>5 DEF AdmittedStored
<1>10. HeaderKept'
  <2>1. InWindow(stored)' = stored'
    BY <1>5 DEF InWindow
  <2> HIDE DEF count
  <2>2. ASSUME count + 1 + remaining' <= RateLimit
        PROVE  Cardinality(stored') + remaining' <= RateLimit
    <3>1. remaining' \in Nat
      BY <1>7, LimiterNumbers
    <3>2. \A c, n, r, l \in Nat : c + 1 + r <= l /\ n <= c + 1 => n + r <= l
      OBVIOUS
    <3>3. count \in Nat /\ Cardinality(stored') \in Nat /\ Cardinality(stored') <= count + 1
      BY <1>5
    <3> QED BY <2>2, <3>1, <3>2, <3>3, LimiterNumbers
  <2> QED BY <1>7, <2>1, <2>2 DEF HeaderKept
<1>11. PausedSince'
  BY <1>2, <1>5 DEF PausedSince, Member, Ages
<1>12. WindowLimit'
  <2>1. CASE admitted' = admitted
    BY <2>1 DEF LimiterInv, WindowLimit
  <2>2. CASE count < RateLimit /\ admitted' = admitted \cup {Request}
    <3>1. Cardinality(admitted) <= count /\ Cardinality(admitted) \in Nat
      BY <1>1, <1>4, WindowCounted, FS_Subset
    <3>2. /\ Cardinality(admitted \cup {Request}) <= Cardinality(admitted) + 1
          /\ Cardinality(admitted \cup {Request}) \in Nat
      BY <1>1, WindowCounted, OneMore
    <3> HIDE DEF count
    <3> QED BY <2>2, <3>1, <3>2, <1>5, LimiterNumbers DEF WindowLimit
  <2> QED BY <1>3, <2>1, <2>2
<1> QED BY <1>8, <1>9, <1>10, <1>11, <1>12 DEF LimiterInv

(* A request that goes unchecked may be recorded none the less, and its     *)
(* client misses the header.                                                *)
LEMMA FailOpenLimits ==
  ASSUME LimiterInv, FailOpen
  PROVE  LimiterInv'
<1>1. LimiterTypeOK /\ AdmittedStored /\ Cardinality(stored) < MaxStored
  BY DEF LimiterInv, FailOpen
<1>2. /\ stored' = stored \/ stored' = InWindow(stored) \cup {Request}
      /\ missed' = TRUE /\ idle' = 0 /\ verdict' = "unchecked"
      /\ UNCHANGED <<admitted, remaining>>
  BY <1>1, RecordedAt DEF FailOpen
<1>3. stored' \subseteq Member
  BY <1>1, <1>2, RecordedAt DEF LimiterTypeOK
<1>4. LimiterTypeOK'
  BY <1>1, <1>2, <1>3, LimiterNumbers DEF LimiterTypeOK, InWindow, Member, Ages
<1>5. AdmittedStored'
  BY <1>1, <1>2 DEF LimiterTypeOK, AdmittedStored, InWindow
<1>6. HeaderKept' /\ WindowLimit'
  BY <1>2 DEF LimiterInv, HeaderKept, WindowLimit
<1>7. PausedSince'
  BY <1>2, <1>3 DEF PausedSince, Member, Ages
<1> QED BY <1>4, <1>5, <1>6, <1>7 DEF LimiterInv

(* A member grows older by a tick, and no two in the window become one. *)
LEMMA AgedAt ==
  ASSUME NEW m \in Member
  PROVE  /\ Aged(m) \in Member /\ Aged(m).no = m.no
         /\ m.age < Window => Aged(m).age = m.age + 1
         /\ ~(m.age < Window) => Aged(m).age = Window
BY LimiterNumbers DEF Aged, Member, Ages

(* Time adds nothing to the window. *)
LEMMA OlderFewer ==
  ASSUME NEW set \in SUBSET Member
  PROVE  /\ Older(set) \subseteq Member
         /\ \A n \in InWindow(Older(set)) :
              \E m \in InWindow(set) : n = Aged(m) /\ n.age = m.age + 1
         /\ IsFiniteSet(InWindow(Older(set)))
         /\ Cardinality(InWindow(Older(set))) \in Nat
         /\ Cardinality(InWindow(Older(set))) <= Cardinality(InWindow(set))
<1>1. Older(set) \subseteq Member
  BY AgedAt DEF Older
<1>2. ASSUME NEW n \in InWindow(Older(set))
      PROVE  \E m \in InWindow(set) : n = Aged(m) /\ n.age = m.age + 1
  <2>1. PICK m \in set : n = Aged(m)
    BY DEF InWindow, Older
  <2>2. n.age < Window
    BY DEF InWindow
  <2>3. m.age < Window /\ n.age = m.age + 1
    BY <2>1, <2>2, AgedAt, LimiterNumbers
  <2> QED BY <2>1, <2>3 DEF InWindow
<1> DEFINE W == InWindow(Older(set))
           f == [n \in W |-> [age |-> n.age - 1, no |-> n.no]]
<1>3. ASSUME NEW n \in W
      PROVE  f[n] \in InWindow(set)
  <2>1. PICK m \in InWindow(set) : n = Aged(m) /\ n.age = m.age + 1
    BY <1>2
  <2>2. m \in Member /\ n.no = m.no
    BY <2>1, AgedAt DEF InWindow
  <2>3. m = [age |-> n.age - 1, no |-> n.no]
    BY <2>1, <2>2, LimiterNumbers DEF Member, Ages
  <2> QED BY <2>1, <2>3
<1>4. \A n, p \in W : f[n] = f[p] => n = p
  <2> SUFFICES ASSUME NEW n \in W, NEW p \in W, f[n] = f[p]
               PROVE  n = p
    OBVIOUS
  <2>1. n \in Member /\ p \in Member
    BY <1>1 DEF InWindow
  <2>2. n.age - 1 = p.age - 1 /\ n.no = p.no
    OBVIOUS
  <2> QED BY <2>1, <2>2, LimiterNumbers DEF Member, Ages
<1>5. f \in Injection(W, InWindow(set))
  BY <1>3, <1>4 DEF Injection, IsInjective
<1>6. IsFiniteSet(InWindow(set))
  BY MembersFinite DEF InWindow
<1>7. IsFiniteSet(W) /\ Cardinality(W) <= Cardinality(InWindow(set))
  BY <1>5, <1>6, FS_Injection
<1> QED BY <1>1, <1>2, <1>7, FS_CardinalityType

(* A tick lets members leave the window, and the set expire with the last. *)
LEMMA TickLimits ==
  ASSUME LimiterInv, AgeWindow
  PROVE  LimiterInv'
<1>1. LimiterTypeOK /\ AdmittedStored /\ stored \in SUBSET Member /\ admitted \in SUBSET Member
  BY DEF LimiterInv, LimiterTypeOK, InWindow
<1>2. /\ idle' = IF idle < Window THEN idle + 1 ELSE Window
      /\ \/ stored' = {} /\ InWindow(Older(stored)) = {}
         \/ stored' = Older(stored)
      /\ admitted' = InWindow(Older(admitted)) /\ verdict' = "none"
      /\ UNCHANGED <<remaining, missed>>
  BY DEF AgeWindow, Expired
<1>3. LimiterTypeOK'
  <2>1. stored' \subseteq Member
    BY <1>1, <1>2, OlderFewer
  <2>2. admitted' \subseteq InWindow(Member)
    BY <1>1, <1>2, OlderFewer DEF InWindow
  <2>3. idle' \in Ages
    BY <1>1, <1>2, LimiterNumbers DEF LimiterTypeOK, Ages
  <2> QED BY <1>1, <1>2, <2>1, <2>2, <2>3 DEF LimiterTypeOK, InWindow, Member
<1>4. AdmittedStored'
  <2>1. InWindow(Older(admitted)) \subseteq InWindow(Older(stored))
    BY <1>1 DEF AdmittedStored, InWindow, Older
  <2>2. InWindow(Older(stored)) \subseteq stored'
    BY <1>2 DEF InWindow
  <2> QED BY <1>2, <2>1, <2>2 DEF AdmittedStored
<1>5. HeaderKept'
  <2>1. InWindow(stored)' = InWindow(Older(stored))
    BY <1>2 DEF InWindow
  <2>2. /\ Cardinality(InWindow(Older(stored))) <= Cardinality(InWindow(stored))
        /\ Cardinality(InWindow(Older(stored))) \in Nat
        /\ Cardinality(InWindow(stored)) \in Nat
    BY <1>1, OlderFewer, WindowCounted
  <2>3. missed \/ remaining = 0 \/ Cardinality(InWindow(stored)) + remaining <= RateLimit
    BY DEF LimiterInv, HeaderKept
  <2>4. remaining \in Nat
    BY <1>1, LimiterNumbers DEF LimiterTypeOK
  <2>5. missed \/ remaining = 0 \/ Cardinality(InWindow(Older(stored))) + remaining <= RateLimit
    BY <2>2, <2>3, <2>4, LimiterNumbers
  <2> QED BY <1>2, <2>1, <2>5 DEF HeaderKept
<1>6. PausedSince'
  <2> SUFFICES ASSUME NEW n \in stored'
               PROVE  n.age >= idle'
    BY DEF PausedSince
  <2>1. PICK m \in stored : n = Aged(m)
    BY <1>2 DEF Older
  <2>2. m \in Member /\ m.age >= idle /\ idle \in Ages
    BY <1>1 DEF LimiterInv, PausedSince, LimiterTypeOK
  <2>3. m.age \in Ages
    BY <2>2 DEF Member
  <2> QED BY <1>2, <2>1, <2>2, <2>3, AgedAt, LimiterNumbers DEF Ages
<1>7. WindowLimit'
  <2>1. InWindow(admitted) = admitted
    BY <1>1 DEF LimiterTypeOK, InWindow
  <2>2. /\ Cardinality(admitted') <= Cardinality(admitted)
        /\ Cardinality(admitted') \in Nat /\ Cardinality(admitted) \in Nat
    BY <1>1, <1>2, <2>1, OlderFewer, WindowCounted
  <2>3. Cardinality(admitted) <= RateLimit
    BY DEF LimiterInv, WindowLimit
  <2> QED BY <2>2, <2>3, LimiterNumbers DEF WindowLimit
<1> QED BY <1>3, <1>4, <1>5, <1>6, <1>7 DEF LimiterInv

-----------------------------------------------------------------------------
(* The theorems about the limiter *)

(* Every step of the process's timers keeps the limiter's invariant. *)
LEMMA LimiterKept == LimiterInv /\ [Next]_vars => LimiterInv'
<1> SUFFICES ASSUME LimiterInv, [Next]_vars
             PROVE  LimiterInv'
  OBVIOUS
<1>1. CASE UNCHANGED limiterVars
  BY <1>1 DEF limiterVars, LimiterInv, LimiterTypeOK, AdmittedStored, HeaderKept,
              PausedSince, WindowLimit
<1>2. CASE LimiterStep
  BY <1>2, CheckLimits, FailOpenLimits DEF LimiterStep
<1>3. CASE Tick
  BY <1>3, TickLimits DEF Tick
<1> QED BY <1>1, <1>2, <1>3 DEF Next, vars

(* The invariant of the limiter. *)
THEOREM LimiterInvariance == Spec => []LimiterInv
<1>1. Init => LimiterInv
  BY LimiterStarts DEF Init
<1> QED BY <1>1, LimiterKept, PTL DEF Spec

(* Every variable of the timers keeps its type. *)
THEOREM TypeCorrect == Spec => []TypeOK
<1>1. LimiterInv /\ HeartbeatInv => TypeOK
  BY DEF LimiterInv, HeartbeatInv, TypeOK
<1> QED BY <1>1, LimiterInvariance, HeartbeatInvariance, PTL

(* No window sees more than RateLimit requests pass the check. *)
THEOREM WindowsAreLimited == Spec => []WindowLimit
<1>1. LimiterInv => WindowLimit
  BY DEF LimiterInv
<1> QED BY <1>1, LimiterInvariance, PTL

(* A client is refused only what it was not promised, and never after a     *)
(* pause.                                                                   *)
THEOREM RefusalsAreEarned == Spec => RefusalsEarned
<1>1. ASSUME LimiterInv, [Next]_vars, verdict' = "refused", ~ UNCHANGED limiterVars
      PROVE  (missed \/ remaining = 0) /\ idle < Window
  <2> DEFINE count == Cardinality(InWindow(stored))
  <2>1. Check /\ count >= RateLimit
    <3>1. LimiterStep \/ Tick
      BY <1>1 DEF Next, vars
    <3>2. ~ FailOpen /\ ~ Tick
      BY <1>1 DEF FailOpen, Tick, AgeWindow
    <3>3. Check
      BY <3>1, <3>2 DEF LimiterStep
    <3>4. ~ Passes(count)
      BY <1>1, <3>3 DEF Check, Pruned
    <3>5. count \in Nat
      BY <1>1, WindowCounted DEF LimiterInv
    <3> HIDE DEF count
    <3> QED BY <3>3, <3>4, <3>5, LimiterNumbers DEF Passes
  <2>2. count \in Nat /\ remaining \in Nat /\ idle \in Ages
    BY <1>1, WindowCounted, LimiterNumbers DEF LimiterInv, LimiterTypeOK
  <2>3. missed \/ remaining = 0 \/ count + remaining <= RateLimit
    BY <1>1 DEF LimiterInv, HeaderKept
  <2>4. ASSUME idle >= Window
        PROVE  count = 0
    <3>1. \A m \in stored : m.age \in Nat /\ m.age >= Window
      BY <1>1, <2>2, <2>4, LimiterNumbers
         DEF LimiterInv, PausedSince, LimiterTypeOK, Member, Ages
    <3>2. InWindow(stored) = {}
      BY <3>1, LimiterNumbers DEF InWindow
    <3> QED BY <3>2, FS_EmptySet
  <2> HIDE DEF count
  <2> QED BY <2>1, <2>2, <2>3, <2>4, LimiterNumbers DEF Ages
<1>2. LimiterInv /\ [Next]_vars =>
        [verdict' = "refused" => (missed \/ remaining = 0) /\ idle < Window]_limiterVars
  BY <1>1
<1> QED BY <1>2, LimiterInvariance, PTL DEF Spec, RefusalsEarned
=============================================================================
