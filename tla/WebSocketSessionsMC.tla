------------------------ MODULE WebSocketSessionsMC ------------------------
(***************************************************************************)
(* The fault sets for the small instances of WebSocketSessions: the        *)
(* largest ones that each property admits.                                 *)
(***************************************************************************)
EXTENDS WebSocketSessions, TLC

SessionScenarios ==
  {FaultKinds \ {"expire"},
   {"early", "db"},
   {"db", "expire", "crash"},
   {}}

(* Sockets differ in name only, and so do addresses. *)
SessionSymmetry == Permutations(Sockets) \cup Permutations(Ips)

EarlyOnly == {{"early"}}

NoFault == {{}}
=============================================================================
