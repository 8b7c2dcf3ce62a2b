----------------------------- MODULE ReorderRule -----------------------------
(***************************************************************************)
(* When a product is to be reordered and how much of it: the arithmetic of *)
(* build_replenishment_suggestions.  Ceilings are exact here; the code     *)
(* computes them in floating point.                                        *)
(***************************************************************************)
EXTENDS Integers

Larger(a, b) == IF a >= b THEN a ELSE b
Smaller(a, b) == IF a <= b THEN a ELSE b

\* Units sold while a delivery is under way, at the rate of the last days.
LeadDemand(rule, sold) == (sold * rule.lead + rule.lookback - 1) \div rule.lookback

ShouldReorder(rule, trigger, stock, sold) ==
    LET projected == stock - LeadDemand(rule, sold)
    IN  \/ stock <= rule.point \/ stock <= rule.min
        \/ trigger > 0 /\ stock <= trigger
        \/ projected <= rule.point \/ projected <= rule.min

\* Mutant: the cap is not applied.
TargetWithoutCap(rule, trigger, sold) ==
    Larger(Larger(rule.min, rule.point + LeadDemand(rule, sold)), trigger)

\* max = 0 stands for no maximum (NULL, or a stored 0: both are ignored).
Target(rule, trigger, sold) ==
    LET wish == Larger(Larger(rule.min, rule.point + LeadDemand(rule, sold)), trigger)
    IN  IF rule.max > 0 THEN Smaller(wish, rule.max) ELSE wish

Recommended(rule, trigger, stock, sold) ==
    IF ShouldReorder(rule, trigger, stock, sold)
    THEN Larger(Target(rule, trigger, sold) - stock, 0)
    ELSE 0
=============================================================================
