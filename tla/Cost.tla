-------------------------------- MODULE Cost --------------------------------
(***************************************************************************)
(* The cost model (internal/bedrock/cost.go).  The unit of a price is a    *)
(* thousandth of a dollar per million tokens, which is what one token      *)
(* costs in thousandths of a micro-dollar; the code's sums are floats.     *)
(***************************************************************************)
EXTENDS Integers

CONSTANT Pricing  \* the table, as a function on the models it has

ASSUME PricingAssumption ==
    \A m \in DOMAIN Pricing : Pricing[m] \in [input: Nat, output: Nat]

KnownModel(m) == m \in DOMAIN Pricing

(* What the tokens cost, before rounding. *)
Price(m, use) == use.input * Pricing[m].input + use.output * Pricing[m].output

(* Mutant of Rounded: the digits after the sixth are cut off. *)
Truncated(x) == {x \div 1000}

(* math.Round to whole micro-dollars, away from zero at a half; but a sum  *)
(* of floats that should be half-way may be just below it, and goes down.  *)
Rounded(x) ==
    (IF x % 1000 <= 500 THEN {x \div 1000} ELSE {})
        \cup (IF x % 1000 >= 500 THEN {x \div 1000 + 1} ELSE {})

(* The results CalculateCost may have for a model it knows, in             *)
(* micro-dollars.                                                          *)
CalculateCost(m, use) == Rounded(Price(m, use))
=============================================================================
