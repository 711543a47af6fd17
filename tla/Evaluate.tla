------------------------------ MODULE Evaluate ------------------------------
(***************************************************************************)
(* crates/settlement-client/src/evaluate.rs: what a machine may conclude   *)
(* about an evidence bundle.  A specification is the record of what it     *)
(* asks, a bundle the record of what it claims, and a missing measurement  *)
(* is None.                                                                *)
(***************************************************************************)
EXTENDS Integers

CONSTANTS None, MaxI64

CheckKind == {"dimensions_within_tolerance", "delivered_before_deadline",
              "material_matches", "quantity_matches"}

\* Mutant: abs without the overflow case, the least integer being its own.
WrappingAbs(x) == IF x < 0 /\ -x <= MaxI64 THEN -x ELSE x

\* i64::unsigned_abs, which has no overflow at the least integer.
UnsignedAbs(x) == IF x < 0 THEN -x ELSE x

DimensionsWithinTolerance(spec, evidence) ==
    IF /\ evidence.deviation_um # None
       /\ UnsignedAbs(evidence.deviation_um) <= spec.tolerance_um
    THEN "Passed" ELSE "Failed"

DeliveredBeforeDeadline(spec, evidence) ==
    IF /\ evidence.delivered_unix # None
       /\ evidence.delivered_unix <= spec.deadline_unix
    THEN "Passed" ELSE "Failed"

\* evaluate_item: what no instrument measures is left to a human.
EvaluateItem(spec, evidence, check) ==
    CASE check = "dimensions_within_tolerance" -> DimensionsWithinTolerance(spec, evidence)
      [] check = "delivered_before_deadline" -> DeliveredBeforeDeadline(spec, evidence)
      [] OTHER -> "NeedsHumanJudgment"

\* evaluate: one failure is conclusive, a missing measurement is one, and a pass
\* needs every item.
Assess(spec, evidence) ==
    LET verdicts == {EvaluateItem(spec, evidence, check) : check \in spec.acceptance}
    IN  IF "Failed" \in verdicts THEN "Fail"
        ELSE IF "NeedsHumanJudgment" \in verdicts THEN "Inconclusive"
        ELSE "Pass"

=============================================================================
