------------------------------ MODULE MCPractice ------------------------------
(* Instance for the model checker: Practice with interchangeable households.  *)
EXTENDS Practice, TLC

AnyHousehold == Permutations(Households)
=============================================================================
