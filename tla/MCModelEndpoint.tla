-------------------------- MODULE MCModelEndpoint --------------------------
(* Instances of ModelEndpoint for TLC. *)
EXTENDS ModelEndpoint

MCModels == {"haiku", "sonnet"}
MCKeys   == {"roleA", "roleB"}

(* A user may change model and key together, or has one choice only. *)
TwoSpecs == {[model |-> "haiku", key |-> "roleA"],
             [model |-> "sonnet", key |-> "roleB"]}
OneSpec  == {[model |-> "haiku", key |-> "roleA"]}
=============================================================================
