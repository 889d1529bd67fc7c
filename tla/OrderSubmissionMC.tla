------------------------- MODULE OrderSubmissionMC -------------------------
(***************************************************************************)
(* The fault sets for the small instances of OrderSubmission: the largest  *)
(* ones that each property admits.                                         *)
(***************************************************************************)
EXTENDS OrderSubmission, TLC

(* A retry matters to the wait list only; the sets without it are about     *)
(* rows, keys and answers.                                                  *)
SubmissionScenarios ==
  {FaultKinds \ {"retry"},
   FaultKinds \ {"redis"},
   {"expire", "overlap", "retry"},
   {"db", "redis"},
   {"db"}}

OverlapOnly == {{"overlap"}}

(* Requests differ in name only, and so do keys. *)
RequestSymmetry == Permutations(Requests) \cup Permutations(Keys)
=============================================================================
