------------------------------ MODULE ApiTimers ------------------------------
(***************************************************************************)
(* What the API process does by its clock: the window of a client of       *)
(* RateLimiter and the heartbeat of a session of Heartbeat.  They share    *)
(* the clock and nothing else: a tick is one step of both.                 *)
(***************************************************************************)
EXTENDS RateLimiter, Heartbeat

vars == <<limiterVars, heartbeatVars>>

TypeOK == LimiterTypeOK /\ HeartbeatTypeOK

Init == LimiterInit /\ HeartbeatInit

Tick == AgeWindow /\ AgeTimers

Next ==
  \/ LimiterStep /\ UNCHANGED heartbeatVars
  \/ HeartbeatStep /\ UNCHANGED limiterVars
  \/ Tick

Spec == Init /\ [][Next]_vars
=============================================================================
