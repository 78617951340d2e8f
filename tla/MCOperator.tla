----------------------------- MODULE MCOperator -----------------------------
(* Instances of Operator for TLC. *)
EXTENDS Operator

Plain == [region |-> "listed", model |-> "vendor", role |-> "aws",
          budget |-> "none", rpm |-> Absent, cap |-> Absent]

(* A plain spec, one with a limit, one in a region the validator does not  *)
(* list, one whose budget says nothing, one for the gov partition, and one *)
(* with a budget that is no number.                                        *)
SomeSpecs == {Plain, [Plain EXCEPT !.rpm = 3600, !.budget = "set"],
              [Plain EXCEPT !.region = "other"],
              [Plain EXCEPT !.budget = "empty", !.rpm = 1],
              [Plain EXCEPT !.region = "gov", !.role = "partition"],
              [Plain EXCEPT !.budget = "malformed"]}
=============================================================================
