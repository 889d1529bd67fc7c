------------------------- MODULE ProcessLifecycleMC -------------------------
(***************************************************************************)
(* The fault sets for the small instance of ProcessLifecycle: the largest  *)
(* ones that each property admits.                                         *)
(***************************************************************************)
EXTENDS ProcessLifecycle

LifecycleScenarios == {FaultKinds, FaultKinds \ {"early"}}
=============================================================================
