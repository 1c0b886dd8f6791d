------------------------------ MODULE MCGeneration ------------------------------
(* Instances of Generation for TLC. *)
EXTENDS Generation, TLC

RunSymmetry == Permutations(Requests) \cup Permutations(Jobs)

================================================================================
