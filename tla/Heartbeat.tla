------------------------------ MODULE Heartbeat ------------------------------
(***************************************************************************)
(* The heartbeat of one WebSocket session (startHeartbeat, handlePong and  *)
(* the timers of handleClose), against a client that answers pings late,   *)
(* early or not at all.  A timer is the number of ticks it has left.       *)
(* Each ping starts a timer of its own, of which only the last is noted    *)
(* in pongTimeouts; a pong clears the one that is noted.                   *)
(***************************************************************************)
EXTENDS Integers, FiniteSetsExt

CONSTANTS
  PingInterval,  \* config.PING_INTERVAL, in ticks
  PongTimeouts   \* the values of config.PONG_TIMEOUT to consider

ASSUME HeartbeatAssumption ==
  PingInterval \in Nat \ {0} /\ PongTimeouts \subseteq Nat \ {0}

VARIABLES
  pongTimeout,  \* config.PONG_TIMEOUT, never changed
  conn,         \* the socket: open, terminated by a timer, or closed
  nextPing,     \* the ticks until the interval fires
  timers,       \* the pong timers that run
  tracked,      \* the one of them in this.pongTimeouts, if any
  unanswered,   \* the ages of the pings the client has yet to answer
  overdue,      \* some ping was not answered within pongTimeout
  silence       \* ticks since the client was heard of

heartbeatVars == <<pongTimeout, conn, nextPing, timers, tracked, unanswered,
                   overdue, silence>>

-----------------------------------------------------------------------------
HeartbeatTypeOK ==
  /\ pongTimeout \in PongTimeouts
  /\ conn \in {"open", "terminated", "closed"}
  /\ nextPing \in 0..PingInterval
  /\ timers \subseteq 0..pongTimeout
  /\ tracked \subseteq timers
  /\ unanswered \subseteq 0..pongTimeout
  /\ overdue \in BOOLEAN
  /\ silence \in Nat

HeartbeatInit ==
  /\ pongTimeout \in PongTimeouts
  /\ conn = "open"
  /\ nextPing = PingInterval
  /\ timers = {} /\ tracked = {}
  /\ unanswered = {} /\ overdue = FALSE
  /\ silence = 0

(* Mutant: the timer of the previous ping is cleared. *)
PingReplacing ==
  /\ conn = "open" /\ nextPing = 0
  /\ nextPing' = PingInterval
  /\ timers' = (timers \ tracked) \cup {pongTimeout}
  /\ tracked' = {pongTimeout}
  /\ unanswered' = unanswered \cup {0}
  /\ UNCHANGED <<pongTimeout, conn, overdue, silence>>

(* The interval fires: a ping, and a timer that replaces the one noted. *)
Ping ==
  /\ conn = "open" /\ nextPing = 0
  /\ nextPing' = PingInterval
  /\ timers' = timers \cup {pongTimeout}
  /\ tracked' = {pongTimeout}
  /\ unanswered' = unanswered \cup {0}
  /\ UNCHANGED <<pongTimeout, conn, overdue, silence>>

(* Mutant: the timer is forgotten, not cleared. *)
HandlePongForgetting ==
  /\ conn = "open"
  /\ tracked' = {}
  /\ unanswered' = IF unanswered = {} THEN {} ELSE unanswered \ {Max(unanswered)}
  /\ silence' = 0
  /\ UNCHANGED <<pongTimeout, conn, nextPing, timers, overdue>>

(* A pong answers the oldest ping, or none. *)
HandlePong ==
  /\ conn = "open"
  /\ timers' = timers \ tracked
  /\ tracked' = {}
  /\ unanswered' = IF unanswered = {} THEN {} ELSE unanswered \ {Max(unanswered)}
  /\ silence' = 0
  /\ UNCHANGED <<pongTimeout, conn, nextPing, overdue>>

(* Mutant: the cleared timer stays in the map. *)
ClearTimersKeepingNote(left) ==
  /\ timers' = left \ tracked
  /\ unanswered' = {}
  /\ UNCHANGED tracked

(* handleClose: the interval and the timer that is noted are cleared. *)
ClearTimers(left) ==
  /\ timers' = left \ tracked
  /\ tracked' = {}
  /\ unanswered' = {}

(* A pong timer fires.  On a socket that is closed terminate does nothing. *)
PongTimeout ==
  /\ 0 \in timers
  /\ \/ /\ conn = "open"
        /\ conn' = "terminated"
        /\ ClearTimers(timers \ {0})
     \/ /\ conn # "open"
        /\ timers' = timers \ {0}
        /\ UNCHANGED <<conn, tracked, unanswered>>
  /\ UNCHANGED <<pongTimeout, nextPing, overdue, silence>>

(* The client leaves. *)
HandleClose ==
  /\ conn = "open"
  /\ conn' = "closed"
  /\ ClearTimers(timers)
  /\ UNCHANGED <<pongTimeout, nextPing, overdue, silence>>

(* A tick passes, unless a timer is due. *)
AgeTimers ==
  /\ 0 \notin timers
  /\ conn = "open" => nextPing > 0
  /\ timers' = {t - 1 : t \in timers}
  /\ tracked' = {t - 1 : t \in tracked}
  /\ nextPing' = IF conn = "open" THEN nextPing - 1 ELSE nextPing
  /\ unanswered' = {a + 1 : a \in {b \in unanswered : b + 1 < pongTimeout}}
  /\ overdue' = (overdue \/ \E a \in unanswered : a + 1 >= pongTimeout)
  /\ silence' = IF conn = "open" THEN silence + 1 ELSE silence
  /\ UNCHANGED <<pongTimeout, conn>>

HeartbeatStep == Ping \/ HandlePong \/ PongTimeout \/ HandleClose

-----------------------------------------------------------------------------
(* Properties *)

(* A client that answers every ping within PONG_TIMEOUT is not terminated,  *)
(* provided that no second ping comes before that: a longer timeout leaves  *)
(* timers that no pong clears.                                              *)
AnsweringKept ==
  pongTimeout <= PingInterval /\ ~overdue => conn # "terminated"

(* Whatever the timeout and whichever timer is noted, a client that was not *)
(* heard of for an interval and a timeout is gone.                          *)
SilentDropped == conn = "open" => silence <= PingInterval + pongTimeout

-----------------------------------------------------------------------------
(* Why they hold *)

(* A socket that is not open has no timer noted. *)
ClosedIsCleared == conn # "open" => tracked = {}

(* While each ping is answered in time, and before the next, the only timer *)
(* that runs is the one that is noted, for the last ping, which still waits *)
(* for its answer.                                                          *)
TimersAnswered ==
  pongTimeout <= PingInterval /\ ~overdue /\ conn = "open" =>
    \A t \in timers :
      /\ t > 0 /\ t \in tracked
      /\ pongTimeout - t = PingInterval - nextPing
      /\ pongTimeout - t \in unanswered

(* A client that is silent has yet to be pinged, or some timer that no pong *)
(* has cleared since runs out in time.                                      *)
SilenceTimed ==
  conn = "open" =>
    \/ silence + nextPing <= PingInterval
    \/ \E t \in timers : silence + t <= PingInterval + pongTimeout

HeartbeatInv ==
  /\ HeartbeatTypeOK
  /\ ClosedIsCleared
  /\ TimersAnswered
  /\ SilenceTimed
  /\ AnsweringKept
=============================================================================
