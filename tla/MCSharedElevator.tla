-------------------------- MODULE MCSharedElevator --------------------------
(* SharedElevator for the model checker: the requests are interchangeable. *)
EXTENDS SharedElevator, TLC

InterchangeableRequests == Permutations(RequestIds)
=============================================================================
