--------------------------- MODULE ExperimentGrading ---------------------------
(***************************************************************************)
(* What the decision rule promises of every complete grading of a design   *)
(* (Mirrors, Guards: formulas about the rule alone, without a variable),   *)
(* and so of every verdict an experiment records.                          *)
(***************************************************************************)
EXTENDS Experiment

CONSTANTS
  GradedDesigns,   \* the designs judged
  GradedValues     \* what a number metric can measure; a boolean metric is any

ASSUME GradedAssumption ==
  /\ GradedValues # {} /\ GradedValues \subseteq Int
  /\ GradedDesigns \subseteq
       [episodes : Nat \ {0}, repetitions : Nat \ {0},
        aggregation : NumberAggregations \cup BooleanAggregations,
        direction : {"higher", "lower"}, minimumUsefulEffect : Nat \ {0},
        guardrails : Seq([rule : GuardrailRules, threshold : Int,
                          aggregation : NumberAggregations \cup BooleanAggregations])]

ValuesOf(how) == IF how \in BooleanAggregations THEN {0, 1} ELSE GradedValues

Measures(d) ==
  [primary : ValuesOf(d.aggregation),
   guards  : {gs \in [DOMAIN d.guardrails -> GradedValues \cup {0, 1}] :
                \A g \in DOMAIN gs : gs[g] \in ValuesOf(d.guardrails[g].aggregation)}]

(* One measurement for each slot of the design.                            *)
Gradings(d) == [1..SlotCount(d) -> Measures(d)]

Judge(d, m) == ReferenceVerdict(d, Analyze(d, m))

-------------------------------------------------------------------------------
(* The primary metric judges the arms even-handedly ("regressed the        *)
(* mirror", decision 0028 ruling 10): with the measurements of the two     *)
(* arms exchanged, and guardrails aside, improved and regressed change     *)
(* places and inconclusive stays.                                          *)
Mirrors ==
  \A d \in GradedDesigns : \A m \in Gradings(d) :
    LET pairs == [d EXCEPT !.guardrails = << >>]
        swapped == [k \in DOMAIN m |-> m[IF k % 2 = 1 THEN k + 1 ELSE k - 1]]
    IN  /\ Judge(pairs, m) = "improved" <=> Judge(pairs, swapped) = "regressed"
        /\ Judge(pairs, m) = "inconclusive" <=> Judge(pairs, swapped) = "inconclusive"

(* A guardrail regression defeats an improvement: an improved verdict means *)
(* that no treatment repetition of a must_pass guardrail reduced by all    *)
(* failed, none of a maximum reduced by sum pushed it over, and no episode *)
(* lost a pass its control had.                                            *)
Guards ==
  \A d \in GradedDesigns : \A m \in Gradings(d) :
    Judge(d, m) = "improved" =>
      \A g \in DOMAIN d.guardrails, e \in 1..d.episodes :
        LET guard == d.guardrails[g]
            graded(arm) == {k \in DOMAIN m : /\ DesignSlots(d)[k].episode = e
                                             /\ DesignSlots(d)[k].arm = arm}
        IN  /\ guard.rule = "must_pass" /\ guard.aggregation = "all" =>
                 \A k \in graded("treatment") : m[k].guards[g] = 1
            /\ guard.rule = "must_not_regress" /\ guard.aggregation = "all" =>
                 \/ \E k \in graded("control") : m[k].guards[g] = 0
                 \/ \A k \in graded("treatment") : m[k].guards[g] = 1
            /\ guard.rule = "maximum" /\ guard.aggregation = "sum" =>
                 SumFunctionOnSet([k \in DOMAIN m |-> m[k].guards[g]],
                                  graded("treatment")) <= guard.threshold

(* A recorded verdict rests on a rule that judges both arms even-handedly  *)
(* (records/experiment.ts; decision 0028 ruling 10), whatever was measured. *)
Mirrored == \A x \in Experiments : Recorded(x) => Mirrors

(* A recorded verdict rests on a rule by which no improvement survives the *)
(* regression of a guardrail, whatever was measured.                       *)
GuardrailsDefeat == \A x \in Experiments : Recorded(x) => Guards

===============================================================================
