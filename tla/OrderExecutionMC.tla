-------------------------- MODULE OrderExecutionMC --------------------------
(***************************************************************************)
(* The fault sets for the small instances of OrderExecution.  Faults may   *)
(* happen and never must, so that every behaviour of a fault set is one of *)
(* its supersets: what is listed are the largest sets each property admits.*)
(***************************************************************************)
EXTENDS OrderExecution, TLC

(* Two processors at once, over everything Postgres and Redis can do and    *)
(* over everything the DEX can do; then without stalls, without crashes.    *)
FaultScenarios ==
  {{"crash", "stall", "db", "redis"},
   {"crash", "stall", "dex", "slippage"},
   FaultKinds \ {"stall"},
   FaultKinds \ {"stall", "crash"}}

(* The processor treats the venues alike. *)
DexSymmetry == Permutations(Dex)

(* Orders that compete for one slot: what takes a job from its processor,   *)
(* and what makes an attempt fail.                                          *)
SettleScenarios == {{"crash", "stall"}, {"redis", "dex", "slippage"}, {"db"}}

RedisOnly == {{"redis"}}

CrashOnly == {{"crash"}}
=============================================================================
