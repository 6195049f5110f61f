------------------------ MODULE MCAssistantActions ------------------------
(* Instances of AssistantActions for TLC. *)
EXTENDS AssistantActions, TLC

RequestSymmetry == Permutations(Requests)
=============================================================================
