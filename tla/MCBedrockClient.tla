-------------------------- MODULE MCBedrockClient --------------------------
(* Instances of BedrockClient for TLC. *)
EXTENDS BedrockClient, TLC

(* Callers are alike. *)
Symmetry == Permutations(Callers)
=============================================================================
