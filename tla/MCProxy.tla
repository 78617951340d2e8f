------------------------------ MODULE MCProxy ------------------------------
(* Instances of Proxy for TLC. *)
EXTENDS Proxy, TLC

(* A required variable between two with a default, as a template may       *)
(* declare them, or one with a default only.                               *)
MixedVariables == <<[required |-> FALSE, default |-> TRUE],
                    [required |-> TRUE, default |-> FALSE]>>
NoVariables == << >>

(* maxTokens in the body of a request. *)
SomeAsks == {-1, 0, 3, 9}

(* amazon.nova-micro-v1:0 of the table, and a model it lacks. *)
SomePricing == [nova |-> [input |-> 35, output |-> 140]]
SomeModels  == {"nova", "other"}
OneModel    == {"nova"}
OneUse      == {[input |-> 2, output |-> 4]}

Symmetry == Permutations(Requests)
=============================================================================
