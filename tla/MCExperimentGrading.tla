-------------------------- MODULE MCExperimentGrading --------------------------
(* Designs small enough to grade in every way: pairs, nested repetitions,  *)
(* each aggregation, each guardrail rule and both directions.              *)
(* They are judged beside the run of MCExperiment.                         *)
EXTENDS MCExperiment, ExperimentGrading

Plain(e, r, how, way) ==
  [episodes |-> e, repetitions |-> r, aggregation |-> how, direction |-> way,
   minimumUsefulEffect |-> 1, guardrails |-> << >>]

Guarded(guard) ==
  [Plain(1, 2, "majority", "higher") EXCEPT !.guardrails = <<guard>>]

SmallDesigns ==
  {Plain(2, 1, "mean", "lower"), Plain(1, 2, "mean", "higher"),
   Plain(1, 3, "median", "higher"), Plain(1, 2, "median", "lower"),
   Plain(1, 2, "sum", "higher"),
   Plain(2, 2, "all", "higher"), Plain(2, 2, "any", "lower"),
   Guarded([rule |-> "must_pass", aggregation |-> "all", threshold |-> 0]),
   Guarded([rule |-> "must_not_regress", aggregation |-> "all", threshold |-> 0]),
   Guarded([rule |-> "maximum", aggregation |-> "sum", threshold |-> 2])}
SmallValues == 0..2
===============================================================================
